---- MODULE Spec2Model ----
(***************************************************************************)
(* A model of votify: the session of spotify_api.SpotifyApi (handshake,    *)
(* lazy refresh, client operations), the queue loop of cli.main, the       *)
(* download pipelines and their key exchange and segment retrieval.        *)
(*                                                                         *)
(* Time.  `now' is the wall clock in milliseconds, so time.time() is       *)
(* now/1000 seconds.  session_auth_expire_time is a Python number; the     *)
(* model holds it in thousandths (the stored number times 1000), which     *)
(* keeps the division by 1000 of the primary path and the multiplication   *)
(* by 1000 of the device path exact.                                       *)
(***************************************************************************)
EXTENDS Integers, Sequences, FiniteSets, TLC

\* ---------------------------------------------------------------- bounds
MaxNow == 2000          \* the clock is explored up to this many ms
MaxHandshakes == 3      \* handshakes (startup included) per run
MaxUrls == 2            \* URLs given to main
MaxQueue == 2           \* items in the queue of one URL
MaxJobs == 2            \* download() calls of a library caller
MaxSegments == 4        \* URLs in a segment list
MaxFiles == 3           \* entries in a list of audio files
MaxTimestamp == 60000   \* server times up to this many ms
MaxEndTime == 2500      \* end_time_millis of a video manifest up to this many ms
MaxSecretLen == 35      \* values in a raw secret
MaxChunks == 3          \* pieces a decrypted file is put together from

\* ------------------------------------------------- environment's choices
ClockSteps == {500, 999, 1000}   \* ms that pass between two observed events
TokenLifetimes == {1000, 1500}  \* ms until the expiry the token endpoint returns
ExpiresIn == {1}                \* expires_in (s) the device-token endpoint returns

VARIABLES
    now,                       \* time.time() * 1000
    phase,                     \* "new" | "ready" | "dead" (constructor raised)
    use_device_flow,           \* SpotifyApi.__init__(use_device_flow=...)
    authorization,             \* session.headers["authorization"]: 0 absent, k = token of handshake k
    client_token,              \* session.headers["client-token"]: 0 None/absent, k = token of handshake k
    session_auth_expire_time,  \* thousandths; -1 while the attribute is not set
    expire_set_by,             \* handshake that last wrote session_auth_expire_time (0 none)
    handshakes,                \* handshakes started so far
    last_auth,                 \* what the last _setup_authorization did
    last_call                  \* what the last client operation did

sessionVars == <<now, phase, use_device_flow, authorization, client_token,
                 session_auth_expire_time, expire_set_by, handshakes,
                 last_auth, last_call>>

\* The Downloader cli.main builds and the run of its queue loop.
VARIABLES
    skip_cleanup,              \* Downloader.skip_cleanup
    overwrite,                 \* Downloader.overwrite
    cdm_present,               \* Downloader.cdm is not None (set_cdm found the .wvd file)
    audio_quality,             \* DownloaderAudio.audio_quality: "aac" | "vorbis"
    disable_wvd,               \* main(disable_wvd=...)
    download_music_videos,     \* main(download_music_videos=...)
    download_podcast_videos,   \* main(download_podcast_videos=...)
    urls,                      \* len(urls) of main
    main_pc,                   \* "off" | "start" | "url" | "item" | "in_job" |
                               \* "done" | "returned" | "aborted"
    url_index,                 \* enumerate(urls, start=1)
    queue_len,                 \* len(download_queue) of the current URL
    item_index,                \* enumerate(download_queue, start=1)
    error_count,               \* main's error_count
    tally,                     \* what the loop has met so far
    job,                       \* the download() call in progress
    temp,                      \* artifacts under Downloader.temp_path
    cdm_open                   \* sessions open in the CDM

\* One call of DownloaderVideo.download_segments.
VARIABLES
    seg_pc,          \* "idle" | "downloading" | "finished" | "failed"
    segment_urls,    \* the argument: the URLs, initialization segment first
    segments_dict,   \* the list handed to the fragment downloader
    frag_status,     \* per list position: "pending" | "fetched" | "skipped"
    fetch_order,     \* list positions in the order their fetches ended
    next_frag,       \* list position the appender handles next
    writing,         \* list positions being written to the output file
    written          \* the output file: the URLs whose bytes it holds

segVars == <<seg_pc, segment_urls, segments_dict, frag_status, fetch_order,
             next_frag, writing, written>>

\* One call of a function that touches no state but its arguments.
VARIABLES
    calc             \* the function, its arguments, and what it returned

\* One call of SpotifyApi.get_track_playback_info and the threads it starts.
VARIABLES
    playback         \* the calling thread, the keep-alive thread, and ctx

configVars == <<skip_cleanup, overwrite, cdm_present, audio_quality, disable_wvd,
                download_music_videos, download_podcast_videos, urls>>
mainVars == <<main_pc, url_index, queue_len, item_index, error_count, tally>>
jobVars == <<job, temp, cdm_open>>
runVars == <<configVars, mainVars, jobVars, segVars, calc, playback>>

\* What a handshake may change / what a client call may change.
authVars == <<authorization, client_token, session_auth_expire_time,
              expire_set_by, handshakes, last_auth>>
callVars == <<authVars, last_call>>

vars == <<sessionVars, runVars>>

\* --------------------------------------------------------- the handshake
\* Where _setup_authorization_with_totp can stop.
TotpOutcomes == {"ok", "server_time_error", "session_token_error",
                 "no_access_token", "no_client_id", "client_token_error",
                 "no_granted_token", "no_token_in_granted_token",
                 "no_expiration_field"}

\* Where _setup_authorization_with_device_flow can stop.
DeviceOutcomes == {"ok", "device_authorization_error", "verification_page_error",
                   "user_code_error", "device_token_error",
                   "no_access_token", "no_expires_in"}

\* Outcomes after which set_token_headers has already run.
TotpHeadersWritten == {"ok", "no_expiration_field"}
DeviceHeadersWritten == {"ok", "no_expires_in"}

NoAuth == [paths |-> {}, failed |-> FALSE, by |-> 0, expires_at |-> 0]
NoCall == [op |-> "none", at |-> 0, checked |-> FALSE, reauth |-> FALSE,
           expire_before |-> -1, sent |-> FALSE, token |-> 0, result |-> "none"]

\* int(x) of a non-negative number held in thousandths.
IntPart(milli) == milli \div 1000

\* timestamp_now < timestamp_session_expire, with
\* timestamp_session_expire = int(self.session_auth_expire_time).
SessionFreshLe(t, expire) == t <= 1000 * IntPart(expire)
SessionFresh(t, expire) == t < 1000 * IntPart(expire)

\* The session after _setup_authorization_with_totp stopped at o; the token
\* endpoint answered with the expiry now + ttl.
TotpSession(o, ttl, k) ==
    [authorization |-> IF o \in TotpHeadersWritten THEN k ELSE authorization,
     client_token |-> IF o \in TotpHeadersWritten THEN k ELSE client_token,
     expire |-> IF o = "ok" THEN now + ttl ELSE session_auth_expire_time,
     expire_set_by |-> IF o = "ok" THEN k ELSE expire_set_by]

\* The session after _setup_authorization_with_device_flow stopped at o.
DeviceSession(o, e, k) ==
    [authorization |-> IF o \in DeviceHeadersWritten THEN k ELSE authorization,
     client_token |-> IF o \in DeviceHeadersWritten THEN 0 ELSE client_token,
     expire |-> IF o = "ok" THEN (((now \div 1000) + e) * 1000) * 1000
                ELSE session_auth_expire_time,
     expire_set_by |-> IF o = "ok" THEN k ELSE expire_set_by]

\* The paths _setup_authorization runs: the one the flag selects.
PathsTried(o) == IF use_device_flow THEN {"device_flow"} ELSE {"totp"}

\* <<outcome, lifetime>>; a handshake that fails delivers no lifetime.
HandshakeChoices ==
    IF use_device_flow
    THEN {<<"ok", e>> : e \in ExpiresIn}
         \cup {<<o, 0>> : o \in DeviceOutcomes \ {"ok"}}
    ELSE {<<"ok", t>> : t \in TokenLifetimes}
         \cup {<<o, 0>> : o \in TotpOutcomes \ {"ok"}}

SessionAfter(h, k) ==
    IF use_device_flow THEN DeviceSession(h[1], h[2], k)
    ELSE TotpSession(h[1], h[2], k)

\* The clock time (ms) at which the token of the handshake h expires by the
\* server's answer: accessTokenExpirationTimestampMs, or expires_in seconds
\* from now; 0 when no token was granted.
TokenExpiresAt(h) ==
    IF h[1] # "ok" THEN 0
    ELSE IF use_device_flow THEN now + (1000 * h[2]) ELSE now + h[2]

\* _setup_authorization with the environment's choice h = <<outcome, lifetime>>.
SetupAuthorization(h) ==
    LET k == handshakes + 1
        s == SessionAfter(h, k)
    IN /\ handshakes' = k
       /\ authorization' = s.authorization
       /\ client_token' = s.client_token
       /\ session_auth_expire_time' = s.expire
       /\ expire_set_by' = s.expire_set_by
       /\ last_auth' = [paths |-> PathsTried(h[1]), failed |-> h[1] # "ok", by |-> k,
                        expires_at |-> TokenExpiresAt(h)]

\* ------------------------------------------------------------- the jobs
Kinds == {"song", "episode", "episode_video", "music_video"}
AudioKinds == {"song", "episode"}
VideoKinds == {"episode_video", "music_video"}

\* The arguments a download() call may get for gid_metadata and
\* stream_info: nothing, the file id string get_gid_metadata returns, a
\* metadata dictionary with or without a video entry; nothing, a
\* StreamInfoAudio without or with a file_id.
GidShapes == {"none", "str", "dict", "dict_novideo"}
StreamShapes == {"none", "nofile", "file"}

\* The stages of a job the log shows, in the order of _download.
Stages == <<"resolve", "select", "key", "fetch", "decrypt", "remux", "finalize">>

NoJob == [kind |-> "none", caller |-> "none", pc |-> "idle", gm |-> "none",
          si |-> "none", exists |-> FALSE, encrypted |-> FALSE,
          outcome |-> "none", failed_at |-> "none", stages |-> <<>>,
          has_key |-> FALSE, key_error |-> FALSE, session |-> "unbound", opened |-> 0,
          closed |-> 0, media |-> "none", moved |-> FALSE, left |-> {},
          auth_error |-> FALSE, helper_failed |-> FALSE]

\* What the loop has met: items queued and not yet attempted, download()
\* calls made, items and URLs that raised, whether one of them raised
\* because the handshake failed, and whether anything was attempted after.
NoTally == [pending |-> 0, begun |-> 0, failed |-> 0,
            auth_failed |-> FALSE, after_auth_failed |-> FALSE]

\* No download_segments call in progress.
NoSegments ==
    /\ seg_pc = "idle"
    /\ segment_urls = <<>>
    /\ segments_dict = <<>>
    /\ frag_status = <<>>
    /\ fetch_order = <<>>
    /\ next_frag = 0
    /\ writing = {}
    /\ written = <<>>

\* No function call in progress.
NoCalc == [fn |-> "none", done |-> FALSE]

\* get_track_playback_info not called: no thread started, ctx not built,
\* no request sent.
NoPlayback ==
    [caller |-> "idle", keep_alive |-> "off", conn_id |-> FALSE,
     machine_id |-> FALSE, state_id |-> FALSE, stop_event |-> FALSE,
     attempt_count |-> 0, wait_ids_count |-> 0,
     sent |-> [r \in {"register", "command", "put", "get"} |-> 0]]

\* No Downloader in play: the state of the run part while only the client
\* is exercised.
InitIdle ==
    /\ NoSegments
    /\ playback = NoPlayback
    /\ skip_cleanup = FALSE
    /\ overwrite = FALSE
    /\ cdm_present = FALSE
    /\ audio_quality = "aac"
    /\ disable_wvd = FALSE
    /\ download_music_videos = FALSE
    /\ download_podcast_videos = FALSE
    /\ urls = 0
    /\ main_pc = "off"
    /\ url_index = 0
    /\ queue_len = 0
    /\ item_index = 0
    /\ error_count = 0
    /\ tally = NoTally
    /\ job = NoJob
    /\ temp = {}
    /\ cdm_open = 0

\* SpotifyApi.__init__ / _set_session: the startup handshake, of a client
\* whose self.totp is in place.  How __init__ comes by self.totp is
\* SpotifyApi_init, in the section on secret selection.
ConstructWith(choices) ==
    /\ phase = "new"
    /\ \E h \in choices :
         /\ SetupAuthorization(h)
         /\ phase' = IF h[1] = "ok" THEN "ready" ELSE "dead"
    /\ UNCHANGED <<now, use_device_flow, last_call, runVars>>

Construct ==
    /\ phase = "new"
    /\ ConstructWith(HandshakeChoices)

\* ---------------------------------------------------- client operations
\* The operations of spotify_api.SpotifyApi that send a request on the
\* session (so with its bearer token), and whether the body starts with
\* self._refresh_session_auth().
ClientOps == {"get_gid_metadata", "get_track_playback_info", "get_lyrics",
              "extract_keys_with_cdrm", "get_track", "get_album",
              "get_playlist", "get_track_credits", "get_episode", "get_show",
              "get_artist_albums_selection", "get_video_manifest",
              "get_playplay_license", "get_widevine_license",
              "get_stream_urls", "get_now_playing_view"}

UncheckedOps == {"extract_keys_with_cdrm", "get_album"}

OpRefreshes(op) == op \in ClientOps \ UncheckedOps

Responses == {"ok", "error"}

\* The handshake argument of a call that runs no handshake.
NoHandshake == <<"none", 0>>

\* One client operation: the refresh check (when the operation has one),
\* the handshake it triggers, then the request.  h is the handshake's
\* outcome, used only when a handshake runs; resp is the response.
ClientCall(op, h, resp) ==
    LET checked == OpRefreshes(op)
        reauth == checked /\ ~SessionFresh(now, session_auth_expire_time)
        raised == reauth /\ h[1] # "ok"
    IN /\ reauth => handshakes < MaxHandshakes
       /\ IF reauth THEN h \in HandshakeChoices ELSE h = NoHandshake
       /\ raised => resp = "none"
       /\ ~raised => resp \in Responses
       /\ IF reauth THEN SetupAuthorization(h)
          ELSE UNCHANGED <<handshakes, authorization, client_token,
                           session_auth_expire_time, expire_set_by, last_auth>>
       /\ last_call' = [op |-> op, at |-> now, checked |-> checked,
                        reauth |-> reauth,
                        expire_before |-> session_auth_expire_time,
                        sent |-> ~raised,
                        token |-> IF raised THEN 0 ELSE authorization',
                        result |-> IF raised THEN "auth_error" ELSE resp]

\* A caller of the library invokes one operation.
Call ==
    /\ phase = "ready"
    /\ \E op \in ClientOps, h \in HandshakeChoices \cup {NoHandshake},
          resp \in Responses \cup {"none"} :
         ClientCall(op, h, resp)
    /\ UNCHANGED <<now, phase, use_device_flow, runVars>>

\* Time passes, by one of the given steps.
TickBy(steps) ==
    /\ phase = "ready"
    /\ \E d \in steps :
         /\ now + d <= MaxNow
         /\ now' = now + d
    /\ UNCHANGED <<phase, use_device_flow, callVars, runVars>>

Tick ==
    /\ phase = "ready"
    /\ TickBy(ClockSteps)

InitSession ==
    /\ now = 0
    /\ phase = "new"
    /\ use_device_flow \in BOOLEAN
    /\ authorization = 0
    /\ client_token = 0
    /\ session_auth_expire_time = -1
    /\ expire_set_by = 0
    /\ handshakes = 0
    /\ last_auth = NoAuth
    /\ last_call = NoCall
    /\ InitIdle
    /\ calc = NoCalc

NextSession == Construct \/ Call \/ Tick

SpecSession == InitSession /\ [][NextSession]_vars

\* ------------------------------------------------- the download() calls
\* The handshakes a run meets, one for each state a handshake can leave:
\* it succeeds, it fails before set_token_headers, it fails after.
RunHandshakes == {<<"ok", 1000>>, <<"session_token_error", 0>>,
                  <<"no_expiration_field", 0>>}

\* ms the run sleeps or waits between two requests
SleepSteps == {1000}

\* from_cookies_file(cookies_path), as main calls it
Startup ==
    /\ phase = "new"
    /\ ConstructWith(RunHandshakes)

\* A client operation called from the downloader; last_call' tells how it
\* ended.
Calls(op) ==
    IF OpRefreshes(op) /\ ~SessionFresh(now, session_auth_expire_time)
    THEN \E h \in RunHandshakes :
           IF h[1] = "ok"
           THEN \E resp \in Responses : ClientCall(op, h, resp)
           ELSE ClientCall(op, h, "none")
    ELSE \E resp \in Responses : ClientCall(op, NoHandshake, resp)

NoClientCall == UNCHANGED callVars

\* _download goes on to the step at pc2; the stages in done are complete.
Advance(pc2, done) ==
    [job EXCEPT !.pc = pc2, !.stages = job.stages \o done]

\* _download raises in the step named stage / returns early.
Raise(stage) ==
    [job EXCEPT !.pc = "finally", !.outcome = "raised", !.failed_at = stage]

\* ... because the client operation just called raised.
RaiseCall(stage) ==
    [Raise(stage) EXCEPT !.auth_error = (last_call'.result = "auth_error")]

Skip(why) == [job EXCEPT !.pc = "finally", !.outcome = why]

\* What a step leaves alone besides the job and the client.
StepFrame ==
    UNCHANGED <<now, phase, use_device_flow, configVars, mainVars, segVars, calc,
                playback>>

ClientStepFrame == StepFrame /\ UNCHANGED <<temp, cdm_open>>

\* A step that is one client operation: go to pc2 when it answers, raise
\* when it fails.
CallOrRaise(op, stage, pc2) ==
    /\ Calls(op)
    /\ job' = IF last_call'.result = "ok" THEN Advance(pc2, <<>>)
              ELSE RaiseCall(stage)

MetadataOp == IF job.kind \in {"song", "music_video"} THEN "get_track"
              ELSE "get_episode"

AfterMetadata == [song |-> "refetch", music_video |-> "album",
                  episode |-> "album", episode_video |-> "album"]

\* `if not track_metadata / episode_metadata / music_video_metadata`
\* (the song tests album_metadata): fetch the item's metadata.
Metadata ==
    /\ job.pc = "metadata"
    /\ \E given \in BOOLEAN :
         IF given
         THEN NoClientCall /\ job' = Advance(AfterMetadata[job.kind], <<>>)
         ELSE CallOrRaise(MetadataOp, "metadata", AfterMetadata[job.kind])
    /\ ClientStepFrame

\* downloader_song: the release date repair; whatever it raises is
\* swallowed.
Refetch ==
    /\ job.pc = "refetch"
    /\ \E stale \in BOOLEAN :
         IF stale THEN Calls("get_track") ELSE NoClientCall
    /\ job' = Advance("album", <<>>)
    /\ ClientStepFrame

\* `if not album_metadata / show_metadata`: the album or the show.
\*   song: get_album with KeyError and TypeError swallowed, not the
\*     error of a body that is not JSON;
\*   episode: get_show with every exception swallowed;
\*   the videos: nothing is caught.
Album ==
    /\ job.pc = "album"
    /\ \E given \in BOOLEAN, caught \in BOOLEAN :
         IF given
         THEN ~caught /\ NoClientCall /\ job' = Advance("gid", <<>>)
         ELSE /\ Calls(IF job.kind \in {"song", "music_video"}
                       THEN "get_album" ELSE "get_show")
              /\ caught => last_call'.result # "ok" /\ job.kind \in AudioKinds
              /\ (job.kind = "episode" /\ last_call'.result # "ok") => caught
              /\ job' = IF last_call'.result = "ok" \/ caught
                        THEN Advance("gid", <<>>)
                        ELSE RaiseCall("album")
    /\ ClientStepFrame

\* `if not gid_metadata: get_gid_metadata(id, type[, product])`: the call
\* passes two or three arguments to a function of six, a TypeError; then
\* get_video_gid for the videos, which reads gid_metadata.get("video").
Gid ==
    /\ job.pc = "gid"
    /\ job' = CASE job.gm = "none" -> Raise("gid")
                [] job.kind \in AudioKinds -> Advance("resolve", <<>>)
                [] job.gm = "str" -> Raise("gid")
                [] job.gm = "dict" -> Advance("resolve", <<>>)
                [] job.kind = "episode_video" -> Skip("no_video")
                [] OTHER -> Advance("related", <<>>)
    /\ NoClientCall
    /\ ClientStepFrame

\* downloader_music_video.get_music_video_id_from_song_id, for a track
\* without a video of its own.
Related ==
    /\ job.pc = "related"
    /\ Calls("get_now_playing_view")
    /\ \E selected \in BOOLEAN :
         job' = IF last_call'.result # "ok" THEN RaiseCall("gid")
                ELSE IF selected THEN Advance("switch", <<>>)
                ELSE Skip("no_video")
    /\ ClientStepFrame

\* ... the selected video's get_track, get_album, and get_gid_metadata,
\* the TypeError again.
Switch ==
    /\ job.pc \in {"switch", "switch_album"}
    /\ IF job.pc = "switch"
       THEN CallOrRaise("get_track", "gid", "switch_album")
       ELSE Calls("get_album") /\ job' = Raise("gid")
    /\ ClientStepFrame

AfterResolve == [song |-> "lyrics", music_video |-> "credits",
                 episode |-> "existing", episode_video |-> "existing"]

\* DownloaderAudio: `if not stream_info: get_stream_info(gid_metadata,
\* product_name, type)`, three arguments to a method of two; then
\* `if not stream_info.file_id: return`.
ResolveAudio ==
    /\ job.pc = "resolve"
    /\ job.kind \in AudioKinds
    /\ job' = CASE job.si = "none" -> Raise("resolve")
                [] job.si = "nofile" ->
                     [Skip("unavailable") EXCEPT !.stages = <<"resolve">>]
                [] OTHER -> Advance(AfterResolve[job.kind], <<"resolve", "select">>)
    /\ NoClientCall
    /\ ClientStepFrame

ManifestShapes == {"clear", "widevine", "other_drm", "no_profiles"}

\* DownloaderVideo.get_stream_info: the manifest, its widevine entry, the
\* best profiles. Without a video or an audio profile it returns the empty
\* StreamInfoVideo, whose file types are None, and get_file_extension
\* raises on "." + None. The episode video returns here when the stream is
\* encrypted and there is no .wvd file.
ResolveVideo ==
    /\ job.pc = "resolve"
    /\ job.kind \in VideoKinds
    /\ Calls("get_video_manifest")
    /\ \E m \in ManifestShapes :
         job' = CASE last_call'.result # "ok" -> RaiseCall("resolve")
                  [] m = "other_drm" -> Raise("resolve")
                  [] m = "no_profiles" ->
                       [Raise("resolve") EXCEPT !.si = "noprofiles"]
                  [] m = "widevine" /\ job.kind = "episode_video" /\ ~cdm_present ->
                       [Skip("no_wvd") EXCEPT !.stages = <<"resolve", "select">>,
                                              !.encrypted = TRUE]
                  [] OTHER ->
                       [Advance(AfterResolve[job.kind], <<"resolve", "select">>)
                           EXCEPT !.encrypted = (m = "widevine")]
    /\ ClientStepFrame

\* downloader_song.get_lyrics
LyricsStep ==
    /\ job.pc = "lyrics"
    /\ IF job.gm = "none" THEN NoClientCall /\ job' = Advance("credits", <<>>)
       ELSE CallOrRaise("get_lyrics", "lyrics", "credits")
    /\ ClientStepFrame

\* get_track_credits, then the tags and the final path
Credits ==
    /\ job.pc = "credits"
    /\ CallOrRaise("get_track_credits", "credits", "existing")
    /\ ClientStepFrame

AfterExistingFetch == "fetch"
\* The else branch of the test below starts with the key.
AfterExisting == "key"

\* `if final_path.exists() and not overwrite`: the audio jobs go on to
\* _final_processing without a media file, the video jobs return.
\* The final file is written whether it is there or not.
SkipsNever(exists) == FALSE

\* final_path.exists() and not self.downloader.overwrite
SkipsExisting(exists) == exists /\ ~overwrite

Existing ==
    /\ job.pc = "existing"
    /\ \E exists \in BOOLEAN, lrc_only \in BOOLEAN :
         /\ lrc_only => job.kind = "song" /\ ~exists
         /\ job' = CASE lrc_only ->
                          [Advance("finalize", <<>>) EXCEPT !.exists = exists]
                     [] SkipsExisting(exists) /\ job.kind \in AudioKinds ->
                          [Advance("finalize", <<>>) EXCEPT !.exists = exists]
                     [] SkipsExisting(exists) ->
                          [Skip("exists") EXCEPT !.exists = exists]
                     [] OTHER -> [Advance(AfterExisting, <<>>) EXCEPT !.exists = exists]
    /\ NoClientCall
    /\ ClientStepFrame

\* --------------------------------------------------- the key exchange
ClosesSessionOnSuccess(j) == j.session = "open" /\ ~j.key_error
\* Downloader.get_widevine_decryption_key's finally block closes the
\* session whatever happened in the try block; the close of a session that
\* was never bound raises and is swallowed.
ClosesSession(j) == j.session = "open"

KeyFails == [job EXCEPT !.pc = "key_finally", !.key_error = TRUE]

\* get_decryption_key / the key step of the videos, up to the CDM's open():
\*   a key passed as argument is used as it is (the audio jobs);
\*   vorbis: get_playplay_decryption_key raises NotImplementedError;
\*   music video: stream_info.widevine_pssh, an attribute StreamInfoVideo
\*     does not have;
\*   episode video without encryption data: (None, None);
\*   no CDM: extract_keys_with_cdrm and the split of its answer;
\*   else PSSH(pssh) and cdm.open().
Key ==
    /\ job.pc = "key"
    /\ \E given \in BOOLEAN, o \in {"ok", "pssh_error", "open_error", "split_error"} :
         /\ given => job.kind \in AudioKinds /\ o = "ok"
         /\ CASE given ->
                   /\ job' = [Advance("fetch", <<"key">>) EXCEPT !.has_key = TRUE]
                   /\ NoClientCall /\ UNCHANGED cdm_open
              [] ~given /\ job.kind \in AudioKinds /\ audio_quality = "vorbis" ->
                   /\ o = "ok"
                   /\ job' = Raise("key")
                   /\ NoClientCall /\ UNCHANGED cdm_open
              [] ~given /\ job.kind = "music_video" ->
                   /\ o = "ok"
                   /\ job' = Raise("key")
                   /\ NoClientCall /\ UNCHANGED cdm_open
              [] ~given /\ job.kind = "episode_video" /\ ~job.encrypted ->
                   /\ o = "ok"
                   /\ job' = Advance("fetch", <<"key">>)
                   /\ NoClientCall /\ UNCHANGED cdm_open
              [] OTHER ->
                   IF ~cdm_present
                   THEN /\ o \in {"ok", "split_error"}
                        /\ Calls("extract_keys_with_cdrm")
                        /\ job' = IF last_call'.result = "ok" /\ o = "ok"
                                  THEN [job EXCEPT !.pc = "key_finally", !.has_key = TRUE]
                                  ELSE KeyFails
                        /\ UNCHANGED cdm_open
                   ELSE /\ o \in {"ok", "pssh_error", "open_error"}
                        /\ NoClientCall
                        /\ IF o = "ok"
                           THEN /\ cdm_open' = cdm_open + 1
                                /\ job' = [job EXCEPT !.pc = "key_license",
                                                      !.session = "open",
                                                      !.opened = job.opened + 1]
                           ELSE /\ UNCHANGED cdm_open
                                /\ job' = KeyFails
    /\ StepFrame /\ UNCHANGED temp

\* cdm.get_license_challenge and spotify_api.get_widevine_license
KeyLicense ==
    /\ job.pc = "key_license"
    /\ \E challenge_ok \in BOOLEAN :
         IF challenge_ok
         THEN /\ Calls("get_widevine_license")
              /\ job' = IF last_call'.result = "ok"
                        THEN Advance("key_parse", <<>>) ELSE KeyFails
         ELSE NoClientCall /\ job' = KeyFails
    /\ ClientStepFrame

\* cdm.parse_license and the first key of type CONTENT
KeyParse ==
    /\ job.pc = "key_parse"
    /\ \E o \in {"ok", "parse_error", "no_content_key"} :
         job' = IF o = "ok"
                THEN [job EXCEPT !.pc = "key_finally", !.has_key = TRUE]
                ELSE KeyFails
    /\ NoClientCall
    /\ ClientStepFrame

\* finally: try: self.cdm.close(cdm_session) except: pass -- and the
\* return of the key or the exception of the try block.
KeyFinally ==
    /\ job.pc = "key_finally"
    /\ LET closes == ClosesSession(job)
           j == IF closes
                THEN [job EXCEPT !.session = "closed", !.closed = job.closed + 1]
                ELSE job
       IN /\ cdm_open' = IF closes THEN cdm_open - 1 ELSE cdm_open
          /\ job' = IF job.key_error
                    THEN [j EXCEPT !.pc = "finally", !.outcome = "raised",
                                   !.failed_at = "key"]
                    ELSE [j EXCEPT !.pc = "fetch", !.stages = job.stages \o <<"key">>]
    /\ NoClientCall
    /\ StepFrame /\ UNCHANGED temp

\* ------------------------------------------- fetch, decrypt, remux, move
Outcomes == {"ok", "nonzero_exit", "raise"}

\* Only what Python itself raises ends the step.
RaisedUnchecked(o) == o = "raise"

\* subprocess.run(..., check=True): a nonzero exit raises
\* CalledProcessError, like anything else that goes wrong in the step.
Raised(o) == o # "ok"

\* The job after a step that ran a helper process.
Exited(j, o) == [j EXCEPT !.helper_failed = @ \/ o = "nonzero_exit"]

\* The file a fetch writes: the video jobs write the "decrypted" names
\* when there is no key.
FetchTarget(part) ==
    IF job.kind \in AudioKinds THEN "encrypted"
    ELSE IF job.has_key THEN part \o "_encrypted" ELSE part \o "_decrypted"

\* download_stream_url (audio; with aria2c a helper process) /
\* download_segments of the video track. A download that fails may leave
\* what it had written.
Fetch ==
    /\ job.pc = "fetch"
    /\ \E o \in Outcomes, partial \in BOOLEAN :
         /\ o = "ok" => partial
         /\ temp' = IF partial
                    THEN temp \cup {FetchTarget("video")} ELSE temp
         /\ o = "nonzero_exit" => job.kind \in AudioKinds
         /\ job' = Exited(CASE Raised(o) -> Raise("fetch")
                            [] job.kind \in VideoKinds -> Advance("fetch_audio", <<>>)
                            [] OTHER -> Advance("decrypt", <<"fetch">>), o)
    /\ NoClientCall
    /\ StepFrame /\ UNCHANGED cdm_open

\* download_segments of the audio track of a video
FetchAudio ==
    /\ job.pc = "fetch_audio"
    /\ \E o \in Outcomes, partial \in BOOLEAN :
         /\ o = "ok" => partial
         /\ temp' = IF partial
                    THEN temp \cup {FetchTarget("audio")} ELSE temp
         /\ o # "nonzero_exit"
         /\ job' = CASE Raised(o) -> Raise("fetch")
                     [] job.has_key -> Advance("decrypt", <<"fetch">>)
                     [] OTHER -> Advance("remux", <<"fetch">>)
    /\ NoClientCall
    /\ StepFrame /\ UNCHANGED cdm_open

RemuxModesAudio == {"ffmpeg", "mp4box", "mp4decrypt"}

\* DownloaderAudio.decrypt up to the decrypted file / the two decrypt_*
\* calls of DownloaderVideo.remux. decrypt_playplay opens its output
\* before it looks for the Ogg header.
Decrypt ==
    /\ job.pc = "decrypt"
    /\ \E o \in Outcomes, partial \in BOOLEAN, mode \in RemuxModesAudio :
         /\ o = "ok" => partial
         /\ (job.kind \in VideoKinds \/ audio_quality = "vorbis") => mode = "ffmpeg"
         /\ temp' = CASE ~partial -> temp
                      [] job.kind \in AudioKinds -> temp \cup {"decrypted"}
                      [] o = "ok" -> temp \cup {"video_decrypted", "audio_decrypted"}
                      [] OTHER -> temp \cup {"video_decrypted"}
         /\ (job.kind \in AudioKinds /\ audio_quality = "vorbis") => o # "nonzero_exit"
         /\ job' = Exited(
                CASE Raised(o) -> Raise("decrypt")
                  [] job.kind \in VideoKinds -> Advance("remux", <<"decrypt">>)
                  [] mode = "mp4box" ->
                       [Advance("remux", <<"decrypt">>) EXCEPT !.media = "decrypted"]
                  [] OTHER ->
                       [Advance("finalize", <<"decrypt">>) EXCEPT !.media = "decrypted"],
                o)
    /\ NoClientCall
    /\ StepFrame /\ UNCHANGED cdm_open

\* remux_mp4box of DownloaderAudio.decrypt / the remux_* call of
\* DownloaderVideo.remux. The audio job moves the remuxed file if there is
\* one, else the decrypted file.
Remux ==
    /\ job.pc = "remux"
    /\ \E o \in Outcomes, partial \in BOOLEAN :
         /\ o = "ok" => partial
         /\ temp' = IF partial THEN temp \cup {"remuxed"} ELSE temp
         /\ job' = Exited(IF Raised(o) THEN Raise("remux")
                          ELSE [Advance("finalize", <<"remux">>)
                                   EXCEPT !.media = "remuxed"], o)
    /\ NoClientCall
    /\ StepFrame /\ UNCHANGED cdm_open

\* Downloader._final_processing: cover, then tags and the move
\* `if media_temp_path`, then the playlist file.
Finalize ==
    /\ job.pc = "finalize"
    /\ \E o \in {"ok", "cover_error", "tag_error", "move_error", "playlist_error"} :
         /\ job.media = "none" => o \in {"ok", "cover_error", "playlist_error"}
         /\ LET moves == job.media # "none" /\ o \in {"ok", "playlist_error"}
            IN /\ temp' = IF moves THEN temp \ {job.media} ELSE temp
               /\ job' = [job EXCEPT
                    !.pc = "finally",
                    !.moved = moves,
                    !.stages = IF moves THEN job.stages \o <<"finalize">> ELSE job.stages,
                    !.outcome = CASE o # "ok" -> "raised"
                                  [] moves -> "finalized"
                                  [] OTHER -> "kept",
                    !.failed_at = IF o # "ok" THEN "finalize" ELSE "none"]
    /\ NoClientCall
    /\ StepFrame /\ UNCHANGED cdm_open

CleanedTempOnSuccess ==
    IF skip_cleanup \/ job.outcome = "raised" THEN temp ELSE {}
\* cleanup_temp_path: rmtree of the temp directory unless skip_cleanup
CleanedTemp == IF skip_cleanup THEN temp ELSE {}

\* download(): `finally: self.downloader.cleanup_temp_path()`, and the
\* return to the caller.
Finally ==
    /\ job.pc = "finally"
    /\ temp' = CleanedTemp
    /\ job' = [job EXCEPT !.pc = "returned", !.left = CleanedTemp]
    /\ NoClientCall
    /\ StepFrame /\ UNCHANGED cdm_open

\* ------------------------------------------------------------ cli.main
NewJob(kind, caller, gm, si) ==
    [NoJob EXCEPT !.kind = kind, !.caller = caller, !.pc = "metadata",
                  !.gm = gm, !.si = si]

MainFrame ==
    UNCHANGED <<now, phase, use_device_flow, configVars, temp, cdm_open, segVars,
                calc, playback>>

\* main up to the loop: the client could not be built (the exception
\* leaves main), a pre-flight check returns, or the loop starts with
\* error_count = 0.
MainStart ==
    /\ main_pc = "start"
    /\ phase # "new"
    /\ \E preflight \in {"pass", "return"} :
         /\ phase = "dead" => preflight = "return"
         /\ main_pc' = CASE phase = "dead" -> "aborted"
                         [] preflight = "return" -> "returned"
                         [] OTHER -> "url"
    /\ url_index' = 1
    /\ error_count' = 0
    /\ UNCHANGED <<queue_len, item_index, tally, job, callVars>>
    /\ MainFrame

\* The client operation get_download_queue starts with, by URL type.
UrlTypes == {"album", "playlist", "track", "episode", "show"}

QueueOp == [album |-> "get_album", playlist |-> "get_playlist",
            track |-> "get_track", episode |-> "get_episode",
            show |-> "get_show"]

\* `for url_index, url in enumerate(urls, start=1)`: where the loop is
\* after the URL at url_index.
AfterUrl == IF url_index + 1 <= urls THEN "url" ELSE "done"

AfterItemAbort(failed) ==
    IF failed THEN "done"
    ELSE IF item_index + 1 <= queue_len THEN "item" ELSE AfterUrl
\* `except Exception: error_count += 1` around the item: the loop goes on
\* with the next item whether the item failed or not.
AfterItem(failed) ==
    IF item_index + 1 <= queue_len THEN "item" ELSE AfterUrl

\* An exception the item's handler catches adds one to error_count.
Caught(raised) == IF raised THEN 1 ELSE 0

Attempt(t) == [t EXCEPT !.after_auth_failed = @ \/ t.auth_failed]

\* The loop leaves the item at item_index.
LeaveItem(raised) ==
    /\ error_count' = error_count + Caught(raised)
    /\ main_pc' = AfterItem(raised)
    /\ item_index' = IF AfterItem(raised) = "item" THEN item_index + 1 ELSE 1
    /\ url_index' = IF AfterItem(raised) = "item" THEN url_index ELSE url_index + 1

\* get_url_info and get_download_queue for the URL at url_index; an
\* exception is counted and the loop continues with the next URL. An
\* artist URL calls get_artist_albums, which the client does not have.
CheckUrl ==
    /\ main_pc = "url"
    /\ \E type \in UrlTypes \cup {"invalid", "artist"} :
         /\ IF type \in UrlTypes THEN Calls(QueueOp[type]) ELSE NoClientCall
         /\ LET raised == type \notin UrlTypes \/ last_call'.result # "ok"
                auth == type \in UrlTypes /\ last_call'.result = "auth_error"
                t == Attempt(tally)
                lengths == IF raised THEN {0}
                           ELSE IF type \in {"track", "episode"} THEN {1}
                           ELSE 0..MaxQueue
            IN \E n \in lengths :
                 /\ error_count' = error_count + Caught(raised)
                 /\ queue_len' = n
                 /\ item_index' = 1
                 /\ main_pc' = IF n > 0 THEN "item" ELSE AfterUrl
                 /\ url_index' = IF n > 0 THEN url_index ELSE url_index + 1
                 /\ tally' = [t EXCEPT !.pending = @ + n,
                                       !.failed = @ + (IF raised THEN 1 ELSE 0),
                                       !.auth_failed = @ \/ auth]
    /\ UNCHANGED job
    /\ MainFrame

\* What Downloader.get_gid_metadata gives main: a file id, nothing (video
\* wanted, none in the manifest) or an exception.
GidResults == {"str", "none", "raise"}

JobKind(media_type) ==
    IF media_type = "track"
    THEN IF download_music_videos THEN "music_video" ELSE "song"
    ELSE IF download_podcast_videos THEN "episode_video" ELSE "episode"

\* `if disable_wvd: continue` / `if audio_quality in VORBIS: continue`
TrackSkipped(media_type) ==
    media_type = "track" /\ (disable_wvd \/ audio_quality = "vorbis")

\* The item at item_index up to the download() call: unplayable items are
\* passed over; get_media_id and get_gid_metadata run inside the try block;
\* then the dispatch on media type and video flags.
ItemBegin ==
    /\ main_pc = "item"
    /\ \E playable \in BOOLEAN, media_type \in {"track", "episode"},
          has_id \in BOOLEAN :
         /\ ~playable => has_id /\ media_type = "track"
         /\ IF playable /\ has_id THEN Calls("get_track_playback_info")
            ELSE NoClientCall
         /\ LET called == playable /\ has_id
                answered == called /\ last_call'.result = "ok"
                auth == called /\ last_call'.result = "auth_error"
                t == IF playable THEN Attempt(tally) ELSE tally
                results == IF ~answered THEN {"str"}
                           ELSE IF download_music_videos \/ download_podcast_videos
                           THEN GidResults ELSE GidResults \ {"none"}
            IN \E g \in results :
                 LET raised == playable /\ (~answered \/ g = "raise")
                     starts == playable /\ ~raised /\ ~TrackSkipped(media_type)
                 IN /\ tally' = [t EXCEPT
                          !.pending = @ - 1,
                          !.failed = @ + (IF raised THEN 1 ELSE 0),
                          !.auth_failed = @ \/ auth]
                    /\ IF starts
                       THEN /\ job' = NewJob(JobKind(media_type), "cli", g, "none")
                            /\ main_pc' = "in_job"
                            /\ UNCHANGED <<error_count, item_index, url_index>>
                       ELSE /\ UNCHANGED job
                            /\ LeaveItem(raised)
    /\ UNCHANGED queue_len
    /\ MainFrame

\* download() returned or raised: the handler counts the exception and
\* the loop goes on. last_call is the last request of the item in hand.
ItemEnd ==
    /\ main_pc = "in_job"
    /\ job.pc = "returned"
    /\ LET raised == job.outcome = "raised"
       IN /\ tally' = [tally EXCEPT
                 !.failed = @ + (IF raised THEN 1 ELSE 0),
                 !.auth_failed = @ \/ job.auth_error]
          /\ LeaveItem(raised)
    /\ job' = NoJob
    /\ last_call' = NoCall
    /\ UNCHANGED <<queue_len, authVars>>
    /\ MainFrame

\* --------------------------------------------- download() called directly
\* A caller of the library calls download() of one of the four downloaders
\* with the arguments it has.
DirectDownload ==
    /\ main_pc = "off"
    /\ phase = "ready"
    /\ job.pc \in {"idle", "returned"}
    /\ tally.begun < MaxJobs
    /\ \E kind \in Kinds, gm \in GidShapes, si \in StreamShapes :
         /\ kind \in VideoKinds => si = "none"
         /\ kind \in AudioKinds => gm # "dict_novideo"
         /\ job' = NewJob(kind, "api", gm, si)
    /\ tally' = [tally EXCEPT !.begun = @ + 1]
    /\ last_call' = NoCall
    /\ UNCHANGED <<main_pc, url_index, queue_len, item_index, error_count, authVars>>
    /\ MainFrame

\* --------------------------------------------------------------- the run
\* Time passes where the run sleeps or waits for the network: between
\* items and URLs, and while a key exchange is under way.
WaitPoints == {"key_license"}

Wait ==
    /\ \/ main_pc \in {"url", "item"}
       \/ job.pc \in WaitPoints
    /\ TickBy(SleepSteps)

\* The client before its construction, no URL looked at, no job, an empty
\* temp directory.
InitRun ==
    /\ now = 0
    /\ phase = "new"
    /\ use_device_flow = FALSE
    /\ authorization = 0
    /\ client_token = 0
    /\ session_auth_expire_time = -1
    /\ expire_set_by = 0
    /\ handshakes = 0
    /\ last_auth = NoAuth
    /\ last_call = NoCall
    /\ url_index = 0
    /\ queue_len = 0
    /\ item_index = 0
    /\ error_count = 0
    /\ tally = NoTally
    /\ job = NoJob
    /\ temp = {}
    /\ cdm_open = 0
    /\ NoSegments
    /\ calc = NoCalc
    /\ playback = NoPlayback

\* main builds the client from the cookies file, without use_device_flow,
\* and the Downloader without skip_cleanup. The jobs main starts end before
\* they read overwrite or the CDM, which are left at their defaults.
InitMain ==
    /\ InitRun
    /\ main_pc = "start"
    /\ urls \in 1..MaxUrls
    /\ skip_cleanup = FALSE
    /\ overwrite = FALSE
    /\ cdm_present = FALSE
    /\ disable_wvd \in BOOLEAN
    /\ audio_quality \in {"aac", "vorbis"}
    /\ download_music_videos \in BOOLEAN
    /\ download_podcast_videos \in BOOLEAN

\* A caller of the library builds the client and the downloaders itself.
InitLibrary ==
    /\ InitRun
    /\ main_pc = "off"
    /\ urls = 0
    /\ skip_cleanup \in BOOLEAN
    /\ overwrite \in BOOLEAN
    /\ cdm_present \in BOOLEAN
    /\ disable_wvd = FALSE
    /\ audio_quality \in {"aac", "vorbis"}
    /\ download_music_videos = FALSE
    /\ download_podcast_videos = FALSE

\* The steps of download() a job started by main gets to: its
\* gid_metadata is a string or nothing and it has no stream_info.
NextMain ==
    \/ Startup
    \/ MainStart
    \/ CheckUrl
    \/ ItemBegin
    \/ ItemEnd
    \/ Metadata
    \/ Refetch
    \/ Album
    \/ Gid
    \/ ResolveAudio
    \/ Finally
    \/ Wait

SpecMain == InitMain /\ [][NextMain]_vars

NextLibrary ==
    \/ Startup
    \/ DirectDownload
    \/ Metadata
    \/ Refetch
    \/ Album
    \/ Gid
    \/ Related
    \/ Switch
    \/ ResolveAudio
    \/ ResolveVideo
    \/ LyricsStep
    \/ Credits
    \/ Existing
    \/ Key
    \/ KeyLicense
    \/ KeyParse
    \/ KeyFinally
    \/ Fetch
    \/ FetchAudio
    \/ Decrypt
    \/ Remux
    \/ Finalize
    \/ Finally
    \/ Wait

SpecLibrary == InitLibrary /\ [][NextLibrary]_vars

\* ------------------------------------------------- download_segments
\* segments_dict = [{"url": url, "frag_index": idx + 1} for idx, url in
\* enumerate(segment_urls)]; position p of a sequence is idx + 1.
SegmentsDictReversed(list) ==
    [p \in 1..Len(list) |-> [url |-> list[Len(list) + 1 - p], frag_index |-> p]]
SegmentsDict(list) ==
    [p \in 1..Len(list) |-> [url |-> list[p], frag_index |-> p]]

\* The URL lists get_segment_urls builds: the initialization segment,
\* written 0, then the data segments 1, 2, ...
SegmentUrls(n) == [p \in 1..n |-> p - 1]

SegFrame == UNCHANGED <<sessionVars, configVars, mainVars, jobVars, calc, playback>>

\* download_segments up to the call of the fragment downloader: the list is
\* built and _prepare_and_start_frag_download opens the output file.
StartSegments ==
    /\ seg_pc = "idle"
    /\ \E n \in 1..MaxSegments :
         /\ segment_urls' = SegmentUrls(n)
         /\ segments_dict' = SegmentsDict(SegmentUrls(n))
         /\ frag_status' = [p \in 1..n |-> "pending"]
    /\ fetch_order' = <<>>
    /\ next_frag' = 1
    /\ writing' = {}
    /\ written' = <<>>
    /\ seg_pc' = "downloading"
    /\ SegFrame

\* download_and_append_fragments: the fetch of one fragment ends, in
\* whatever order; a fetch that fails leaves the fragment out or ends the
\* call.
FetchFragment ==
    /\ seg_pc = "downloading"
    /\ \E p \in DOMAIN frag_status, o \in {"fetched", "skipped", "fatal"} :
         /\ frag_status[p] = "pending"
         /\ writing = {} \/ o # "fatal"
         /\ frag_status' = [frag_status EXCEPT ![p] = IF o = "fatal" THEN "skipped" ELSE o]
         /\ seg_pc' = IF o = "fatal" THEN "failed" ELSE seg_pc
         /\ fetch_order' = Append(fetch_order, p)
    /\ UNCHANGED <<segment_urls, segments_dict, next_frag, writing, written>>
    /\ SegFrame

\* ... the calling thread takes the fragments in the order of the list
\* and starts to append the next one once its fetch has ended.
AppendBegin ==
    /\ seg_pc = "downloading"
    /\ writing = {}
    /\ next_frag \in DOMAIN frag_status
    /\ frag_status[next_frag] # "pending"
    /\ IF frag_status[next_frag] = "fetched"
       THEN writing' = {next_frag} /\ UNCHANGED next_frag
       ELSE next_frag' = next_frag + 1 /\ UNCHANGED writing
    /\ UNCHANGED <<seg_pc, segment_urls, segments_dict, frag_status,
                   fetch_order, written>>
    /\ SegFrame

\* ... and the bytes are in the file.
AppendEnd ==
    /\ seg_pc = "downloading"
    /\ \E p \in writing :
         /\ written' = Append(written, segments_dict[p].url)
         /\ writing' = writing \ {p}
         /\ next_frag' = p + 1
    /\ UNCHANGED <<seg_pc, segment_urls, segments_dict, frag_status, fetch_order>>
    /\ SegFrame

\* ... after the last fragment the file is closed and the call returns.
FinishSegments ==
    /\ seg_pc = "downloading"
    /\ writing = {}
    /\ next_frag = Len(segments_dict) + 1
    /\ seg_pc' = "finished"
    /\ UNCHANGED <<segment_urls, segments_dict, frag_status, fetch_order,
                   next_frag, writing, written>>
    /\ SegFrame

InitSegments ==
    /\ now = 0
    /\ phase = "new"
    /\ use_device_flow = FALSE
    /\ authorization = 0
    /\ client_token = 0
    /\ session_auth_expire_time = -1
    /\ expire_set_by = 0
    /\ handshakes = 0
    /\ last_auth = NoAuth
    /\ last_call = NoCall
    /\ InitIdle
    /\ calc = NoCalc

NextSegments ==
    \/ StartSegments
    \/ FetchFragment
    \/ AppendBegin
    \/ AppendEnd
    \/ FinishSegments

SpecSegments == InitSegments /\ [][NextSegments]_vars

\* ------------------------------------------------- functions of arguments
\* Everything but calc at rest: no client, no Downloader, no segment call.
Quiet ==
    /\ now = 0
    /\ phase = "new"
    /\ use_device_flow = FALSE
    /\ authorization = 0
    /\ client_token = 0
    /\ session_auth_expire_time = -1
    /\ expire_set_by = 0
    /\ handshakes = 0
    /\ last_auth = NoAuth
    /\ last_call = NoCall
    /\ InitIdle

CalcFrame ==
    UNCHANGED <<sessionVars, configVars, mainVars, jobVars, segVars, playback>>

\* ------------------------------------------------ get_track_playback_info
PlaybackFrame ==
    UNCHANGED <<sessionVars, configVars, mainVars, jobVars, segVars, calc>>

\* The call begins: ctx is built and t_ws is started.
StartSocket ==
    /\ playback.caller = "idle"
    /\ playback' = [playback EXCEPT !.caller = "wait_conn"]
    /\ PlaybackFrame

\* on_message, in the socket thread: a message brings the connection id,
\* a state_machine_id or a state_id.
OnMessage ==
    /\ playback.caller # "idle"
    /\ \E id \in {"conn_id", "machine_id", "state_id"} :
         /\ ~playback[id]
         /\ playback' = [playback EXCEPT ![id] = TRUE]
    /\ PlaybackFrame

\* while not ctx.conn_id: sleep; then the device is registered.
Register ==
    /\ playback.caller = "wait_conn"
    /\ playback.conn_id
    /\ playback' = [playback EXCEPT !.caller = "register",
                                    !.sent.register = @ + 1]
    /\ PlaybackFrame

\* session.post(URL_REGISTRO) returns, whatever the status, or raises;
\* then t_put is started.
Registered ==
    /\ playback.caller = "register"
    /\ \E o \in {"response", "exception"} :
         playback' = IF o = "exception"
                     THEN [playback EXCEPT !.caller = "raised"]
                     ELSE [playback EXCEPT !.caller = "started",
                                           !.keep_alive = "loop"]
    /\ PlaybackFrame

\* session.post(URL_COMMAND) is sent ...
Command ==
    /\ playback.caller = "started"
    /\ playback' = [playback EXCEPT !.caller = "command",
                                    !.sent.command = @ + 1]
    /\ PlaybackFrame

\* ... and returns, whatever the status, or raises.
Commanded ==
    /\ playback.caller = "command"
    /\ \E o \in {"response", "exception"} :
         playback' = [playback EXCEPT
                        !.caller = IF o = "exception" THEN "raised"
                                   ELSE "wait_stop"]
    /\ PlaybackFrame

\* while not ctx.stop_event.is_set(): sleep; then the playback info is
\* requested ...
GetInfo ==
    /\ playback.caller = "wait_stop"
    /\ playback.stop_event
    /\ playback' = [playback EXCEPT !.caller = "get", !.sent.get = @ + 1]
    /\ PlaybackFrame

\* ... and response.json() is returned or raises.
GotInfo ==
    /\ playback.caller = "get"
    /\ \E o \in {"response", "exception"} :
         playback' = [playback EXCEPT
                        !.caller = IF o = "exception" THEN "raised"
                                   ELSE "returned"]
    /\ PlaybackFrame

\* keep_alive_loop, in the thread t_put, at the head of the while: with the
\* three ids it sends the state with session.put; without, it waits half a
\* second, 21 times at most.
KeepAlive ==
    /\ playback.keep_alive = "loop"
    /\ playback' =
         IF playback.stop_event
         THEN [playback EXCEPT !.keep_alive = "ended"]
         ELSE IF playback.machine_id /\ playback.state_id /\ playback.conn_id
         THEN [playback EXCEPT !.keep_alive = "put", !.wait_ids_count = 0,
                               !.sent.put = @ + 1]
         ELSE IF playback.wait_ids_count + 1 > 20
         THEN [playback EXCEPT !.wait_ids_count = @ + 1, !.stop_event = TRUE,
                               !.keep_alive = "ended"]
         ELSE [playback EXCEPT !.wait_ids_count = @ + 1]
    /\ PlaybackFrame

\* session.put returns 200, returns another status, or raises; the
\* exception is caught in the loop, which ends at the third failure and
\* otherwise sleeps and goes round again.
PutDone ==
    /\ playback.keep_alive = "put"
    /\ \E o \in {"200", "other", "exception"} :
         playback' =
           IF o = "200"
           THEN [playback EXCEPT !.keep_alive = "ended", !.stop_event = TRUE]
           ELSE LET next == IF playback.attempt_count + 1 >= 3
                            THEN "ended" ELSE "loop"
                IN [playback EXCEPT !.attempt_count = @ + 1,
                                    !.keep_alive = next,
                                    !.stop_event = (next = "ended")]
    /\ PlaybackFrame

InitPlayback ==
    /\ Quiet
    /\ calc = NoCalc

NextPlayback ==
    \/ StartSocket
    \/ OnMessage
    \/ Register
    \/ Registered
    \/ Command
    \/ Commanded
    \/ GetInfo
    \/ GotInfo
    \/ KeepAlive
    \/ PutDone

SpecPlayback == InitPlayback /\ [][NextPlayback]_vars

\* The threads of the call run on: the calling thread, the thread t_put and
\* every HTTP request take their next step when they can.  Nothing makes
\* the socket deliver a message.
SpecPlaybackLive ==
    /\ InitPlayback
    /\ [][NextPlayback]_vars
    /\ WF_vars(StartSocket)
    /\ WF_vars(Register)
    /\ WF_vars(Registered)
    /\ WF_vars(Command)
    /\ WF_vars(Commanded)
    /\ WF_vars(GetInfo)
    /\ WF_vars(GotInfo)
    /\ WF_vars(KeepAlive)
    /\ WF_vars(PutDone)

\* ---------------------------------------------------------- get_audio_file
\* The two ladders of constants.py, enums.AudioQuality by value.
VORBIS_AUDIO_QUALITIES == <<"vorbis-high", "vorbis-medium", "vorbis-low">>
AAC_AUDIO_QUALITIES == <<"aac-high", "aac-medium">>

AUDIO_QUALITY_X_FORMAT_ID_MAPPING ==
    "vorbis-high" :> "OGG_VORBIS_320" @@ "vorbis-medium" :> "OGG_VORBIS_160"
    @@ "vorbis-low" :> "OGG_VORBIS_96" @@ "aac-high" :> "MP4_256"
    @@ "aac-medium" :> "MP4_128"

\* The elements of a sequence.
Range(seq) == {seq[i] : i \in DOMAIN seq}

\* seq.index(x)
IndexOf(x, seq) ==
    CHOOSE i \in DOMAIN seq : seq[i] = x /\ \A k \in 1..(i - 1) : seq[k] # x

\* return None, None
NoAudioFile == [quality |-> "none", format |-> "none", file_id |-> 0]

\* The whole ladder, whatever the request.
LadderWhole(qualities, start_index) == qualities

\* qualities[start_index:]
Ladder(qualities, start_index) == SubSeq(qualities, start_index, Len(qualities))

\* for audio_file in audio_files: if audio_file["format"] == ...: return
\* (entry i of the list is the dict with format formats[i] and file_id i)
RECURSIVE ScanFiles(_, _, _)
ScanFiles(formats, quality, i) ==
    IF i > Len(formats) THEN NoAudioFile
    ELSE IF formats[i] = AUDIO_QUALITY_X_FORMAT_ID_MAPPING[quality]
         THEN [quality |-> quality, format |-> formats[i], file_id |-> i]
         ELSE ScanFiles(formats, quality, i + 1)

\* for quality in qualities[start_index:]: ...; return None, None
RECURSIVE ScanQualities(_, _)
ScanQualities(ladder, formats) ==
    IF ladder = <<>> THEN NoAudioFile
    ELSE LET found == ScanFiles(formats, Head(ladder), 1)
         IN IF found # NoAudioFile THEN found
            ELSE ScanQualities(Tail(ladder), formats)

get_audio_file(quality, formats) ==
    LET qualities == IF \E i \in DOMAIN AAC_AUDIO_QUALITIES :
                            AAC_AUDIO_QUALITIES[i] = quality
                     THEN AAC_AUDIO_QUALITIES ELSE VORBIS_AUDIO_QUALITIES
        start_index == IndexOf(quality, qualities)
    IN ScanQualities(Ladder(qualities, start_index), formats)

\* The call of get_audio_file on the arguments returns.
GetAudioFile ==
    /\ calc.fn = "get_audio_file"
    /\ ~calc.done
    /\ calc' = [calc EXCEPT !.done = TRUE,
                            !.result = get_audio_file(calc.quality, calc.audio_files)]
    /\ CalcFrame

\* ------------------------------------------------- the one-time-code counter
\* api/constants.py TOTP_PERIOD, TOTP.period, and the default of
\* generate_totp's period.
TOTP_PERIOD == 30

\* api/totp.py Totp.generate, up to the counter:
\* int(timestamp) // 1000 // TOTP_PERIOD, rounded instead of cut.
Totp_generate_rounded(timestamp) == ((timestamp + 500) \div 1000) \div TOTP_PERIOD

\* api/totp.py Totp.generate, up to the counter:
\* int(timestamp) // 1000 // TOTP_PERIOD
Totp_generate(timestamp) == (timestamp \div 1000) \div TOTP_PERIOD

\* totp.py TOTP.generate, up to the counter:
\* math.floor(timestamp / 1000 / self.period), the true divisions kept as
\* a numerator over a denominator
TOTP_generate(timestamp) ==
    LET by_1000 == <<timestamp, 1000>>
        by_period == <<by_1000[1], by_1000[2] * TOTP_PERIOD>>
    IN by_period[1] \div by_period[2]

\* utils.py generate_totp, up to the counter:
\* int(timestamp // 1000 // period)
generate_totp(timestamp, period) == (timestamp \div 1000) \div period

\* The three generators are handed the server time.
Generate ==
    /\ calc.fn = "generate"
    /\ ~calc.done
    /\ calc' = [calc EXCEPT
                  !.done = TRUE,
                  !.result = [Totp |-> Totp_generate(calc.timestamp),
                              TOTP |-> TOTP_generate(calc.timestamp),
                              generate_totp |->
                                  generate_totp(calc.timestamp, TOTP_PERIOD)]]
    /\ CalcFrame

\* ------------------------------------------------------ the identifier codec
\* base62.CHARSET_INVERTED, and the digits hex() writes and int(_, 16) reads.
\* A str is the sequence of its characters.
CHARSET_INVERTED ==
    <<"0", "1", "2", "3", "4", "5", "6", "7", "8", "9", "a", "b", "c",
      "d", "e", "f", "g", "h", "i", "j", "k", "l", "m", "n", "o", "p",
      "q", "r", "s", "t", "u", "v", "w", "x", "y", "z", "A", "B", "C",
      "D", "E", "F", "G", "H", "I", "J", "K", "L", "M", "N", "O", "P",
      "Q", "R", "S", "T", "U", "V", "W", "X", "Y", "Z">>

HexDigits ==
    <<"0", "1", "2", "3", "4", "5", "6", "7", "8", "9", "a", "b", "c",
      "d", "e", "f">>

\* A Python int of any size: its limbs to the base 4096, the most
\* significant first and not 0; the empty sequence is 0.
\* n * m + a, for a below 4096
RECURSIVE IntMulAdd(_, _, _)
IntMulAdd(n, m, a) ==
    IF n = <<>> THEN (IF a = 0 THEN <<>> ELSE <<a>>)
    ELSE LET t == n[Len(n)] * m + a
         IN Append(IntMulAdd(SubSeq(n, 1, Len(n) - 1), m, t \div 4096), t % 4096)

\* divmod(n, m)
RECURSIVE IntDivMod(_, _)
IntDivMod(n, m) ==
    IF n = <<>> THEN [q |-> <<>>, r |-> 0]
    ELSE LET p == IntDivMod(SubSeq(n, 1, Len(n) - 1), m)
             cur == p.r * 4096 + n[Len(n)]
         IN [q |-> IF p.q = <<>> /\ cur \div m = 0 THEN <<>>
                   ELSE Append(p.q, cur \div m),
             r |-> cur % m]

\* base62.decode(string, charset) and int(string, 16): the value of the
\* digits, each worth its place in the charset.
RECURSIVE FromDigits(_, _)
FromDigits(string, charset) ==
    IF string = <<>> THEN <<>>
    ELSE IntMulAdd(FromDigits(SubSeq(string, 1, Len(string) - 1), charset),
                   Len(charset),
                   IndexOf(string[Len(string)], charset) - 1)

\* base62.encode(n, charset) and hex(n)[2:]: the digits of n without
\* leading zeros, one digit for 0.
RECURSIVE ToDigits(_, _)
ToDigits(n, charset) ==
    LET d == IntDivMod(n, Len(charset))
    IN IF d.q = <<>> THEN <<charset[d.r + 1]>>
       ELSE Append(ToDigits(d.q, charset), charset[d.r + 1])

\* str.zfill(width)
zfill(string, width) ==
    IF Len(string) >= width THEN string
    ELSE [i \in 1..(width - Len(string)) |-> "0"] \o string

\* The padding forgotten.
media_id_to_gid_unpadded(media_id) ==
    ToDigits(FromDigits(media_id, CHARSET_INVERTED), HexDigits)

\* hex(base62.decode(media_id, base62.CHARSET_INVERTED))[2:].zfill(32)
media_id_to_gid(media_id) ==
    zfill(ToDigits(FromDigits(media_id, CHARSET_INVERTED), HexDigits), 32)

\* base62.encode(int(gid, 16), charset=base62.CHARSET_INVERTED).zfill(22)
gid_to_media_id(gid) ==
    zfill(ToDigits(FromDigits(gid, HexDigits), CHARSET_INVERTED), 22)

\* The identifiers converted: an identifier of a track and a gid with any
\* first and last characters, and with any number of leading zeros.
MediaId ==
    <<"4", "i", "V", "5", "W", "9", "u", "Y", "E", "d", "Y", "U", "V",
      "a", "7", "9", "A", "x", "b", "7", "R", "h">>

GidOfMedia ==
    <<"f", "3", "a", "9", "c", "0", "d", "4", "1", "e", "7", "b", "5",
      "2", "8", "6", "a", "0", "c", "4", "e", "1", "9", "d", "7", "b",
      "3", "f", "6", "8", "2", "5">>

Variants(string, charset) ==
    {[string EXCEPT ![1] = a, ![Len(string)] = b] : a, b \in Range(charset)}
    \cup {[i \in 1..Len(string) |-> IF i <= k THEN charset[1] ELSE string[i]] :
             k \in 0..Len(string)}
    \cup {[i \in 1..Len(string) |-> charset[Len(charset)]]}

\* decode, encode, decode of a media id ...
ConvertMediaId ==
    /\ calc.fn = "media_id_to_gid"
    /\ ~calc.done
    /\ LET gid == media_id_to_gid(calc.media_id)
           media_id == gid_to_media_id(gid)
       IN calc' = [calc EXCEPT !.done = TRUE,
                               !.result = [gid |-> gid, media_id |-> media_id,
                                           again |-> media_id_to_gid(media_id)]]
    /\ CalcFrame

\* ... and encode, decode of a gid.
ConvertGid ==
    /\ calc.fn = "gid_to_media_id"
    /\ ~calc.done
    /\ LET media_id == gid_to_media_id(calc.gid)
       IN calc' = [calc EXCEPT !.done = TRUE,
                               !.result = [media_id |-> media_id,
                                           gid |-> media_id_to_gid(media_id)]]
    /\ CalcFrame

\* ------------------------------------------------- DownloaderVideo.remux
\* A member of an Enum is its class and its name: members of two classes
\* are never equal, whatever their values.
\* DownloaderVideo.__init__ and _adjust_remux_mode: what self.remux_mode is
\* for the given format and mode.
adjust_remux_mode(video_format, remux_mode) ==
    IF video_format = [enum |-> "VideoFormat", name |-> "WEBM"]
    THEN [enum |-> "RemuxModeVideo", name |-> "FFMPEG"]
    ELSE remux_mode

\* DownloaderVideo.remux, after the decryption: the backends it calls, for
\* self.remux_mode == RemuxModeAudio.MP4BOX
DownloaderVideo_remux(remux_mode) ==
    IF remux_mode = [enum |-> "RemuxModeAudio", name |-> "MP4BOX"]
    THEN <<"remux_mp4box">>
    ELSE <<"remux_ffmpeg">>

\* A DownloaderVideo is built as main builds it and remuxes two streams.
RemuxVideo ==
    /\ calc.fn = "remux"
    /\ ~calc.done
    /\ calc' = [calc EXCEPT
                  !.done = TRUE,
                  !.result = DownloaderVideo_remux(
                      adjust_remux_mode(calc.video_format, calc.remux_mode))]
    /\ CalcFrame

\* ------------------------------------------- Downloader.get_gid_metadata
\* The audio branch (download_music_video and download_podcast_videos both
\* False) on a playback info with one media item.  The lists of the item's
\* manifest, one after the other, are a sequence of bitrates: entry i is
\* the dict with that bitrate and file_id i.

\* target_bitrate: the product of the account decides it, the configured
\* audio quality is not an argument of the function.
target_bitrate(media_type, user_product) ==
    IF media_type = "episode" THEN 128000
    ELSE IF user_product = "PREMIUM" THEN 256000 ELSE 128000

\* raise ValueError(...)
RaisedValueError == [raised |-> TRUE, file_id |-> 0, bitrate |-> 0]

\* next(f["file_id"] for ... if f.get("bitrate") == int(target_bitrate))
RECURSIVE NextWithBitrate(_, _, _)
NextWithBitrate(files, bitrate, i) ==
    IF i > Len(files) THEN RaisedValueError
    ELSE IF files[i] = bitrate
         THEN [raised |-> FALSE, file_id |-> i, bitrate |-> files[i]]
         ELSE NextWithBitrate(files, bitrate, i + 1)

\* name_matches: the server's name of the item and track_name contain one
\* another.
get_gid_metadata(media_type, user_product, name_matches, files) ==
    IF ~name_matches THEN RaisedValueError
    ELSE NextWithBitrate(files, target_bitrate(media_type, user_product), 1)

\* The call of get_gid_metadata on the arguments returns or raises.
GetGidMetadata ==
    /\ calc.fn = "get_gid_metadata"
    /\ ~calc.done
    /\ calc' = [calc EXCEPT !.done = TRUE,
                            !.result = get_gid_metadata(calc.media_type,
                                           calc.user_product, calc.name_matches,
                                           calc.files)]
    /\ CalcFrame

\* ------------------------------------------ DownloaderVideo.get_segment_urls
\* A str is a sequence of pieces: a piece of text, a placeholder of a
\* template, or the digits str() makes of an int.
Text(s) == [kind |-> "text", s |-> s, n |-> 0]
Placeholder(name) == [kind |-> "placeholder", s |-> name, n |-> 0]
Str(n) == [kind |-> "str", s |-> "", n |-> n]

\* string.replace("{{name}}", value): every occurrence is replaced.
replace(string, name, value) ==
    [i \in DOMAIN string |->
        IF string[i] = Placeholder(name) THEN value ELSE string[i]]

\* The stop of the range without the five seconds added.
SegmentRangeStopBare(end_time_millis) == end_time_millis \div 1000

\* int(end_time_millis / 1000) + 5
SegmentRangeStop(end_time_millis) == end_time_millis \div 1000 + 5

\* range(start, stop, step) for step > 0, as a list
RECURSIVE range(_, _, _)
range(start, stop, step) ==
    IF start >= stop THEN <<>>
    ELSE <<start>> \o range(start + step, stop, step)

get_segment_urls(base_url, initialization_template, segment_template, end_time_millis, segment_length, profile_id, file_type) ==
    LET initialization_template_formatted ==
            replace(replace(initialization_template,
                            "profile_id", Str(profile_id)),
                    "file_type", Text(file_type))
        first_segment == <<Text(base_url)>> \o initialization_template_formatted
        timestamps == range(0, SegmentRangeStop(end_time_millis), segment_length)
        segment_template_url_formatted(i) ==
            replace(replace(replace(segment_template,
                                    "profile_id", Str(profile_id)),
                            "segment_timestamp", Str(i)),
                    "file_type", Text(file_type))
    IN <<first_segment>> \o
       [k \in DOMAIN timestamps |->
            <<Text(base_url)>> \o segment_template_url_formatted(timestamps[k])]

\* The call of get_segment_urls on the arguments returns.
GetSegmentUrls ==
    /\ calc.fn = "get_segment_urls"
    /\ ~calc.done
    /\ calc' = [calc EXCEPT
                  !.done = TRUE,
                  !.result = get_segment_urls(calc.base_url,
                                 calc.initialization_template,
                                 calc.segment_template, calc.end_time_millis,
                                 calc.segment_length, calc.profile_id,
                                 calc.file_type)]
    /\ CalcFrame

\* -------------------------------------------- DownloaderVideo.get_stream_info
\* None where the code has an index: no index of a list is negative.
NoIndex == -1

\* for index, encryption_info in enumerate(encryption_infos): ... return
\* index, encryption_info; falling off the loop returns None.  The list is
\* the sequence of its key systems; indices count from 0.
get_encryption_info(encryption_infos, key_system) ==
    LET matches == {i \in DOMAIN encryption_infos :
                        encryption_infos[i] = key_system}
    IN IF matches = {} THEN NoIndex
       ELSE (CHOOSE i \in matches : \A k \in matches : i <= k) - 1

\* encryption_index in (x.get("encryption_indices", [encryption_index]))
InEncryptionGroup(x, encryption_index) ==
    IF x.has_encryption_indices THEN encryption_index \in x.encryption_indices
    ELSE TRUE

\* list(filter(lambda x: x["mime_type"].startswith(type) and ..., profiles)),
\* as the positions of the profiles kept
FilterProfiles(profiles, type, encryption_index) ==
    SelectSeq([i \in DOMAIN profiles |-> i],
              LAMBDA i : /\ profiles[i].mime_type.type = type
                         /\ InEncryptionGroup(profiles[i], encryption_index))

\* The head of get_stream_info, up to the two lists of profiles: unpacking
\* the None of get_encryption_info raises TypeError.
get_stream_info(encryption_infos, profiles) ==
    LET found == get_encryption_info(encryption_infos, "widevine")
        encryption_index == IF encryption_infos # <<>> THEN found ELSE NoIndex
    IN IF encryption_infos # <<>> /\ found = NoIndex
       THEN [raised |-> TRUE, encryption_index |-> NoIndex,
             video_profiles |-> <<>>, audio_profiles |-> <<>>]
       ELSE [raised |-> FALSE, encryption_index |-> encryption_index,
             video_profiles |-> FilterProfiles(profiles, "video", encryption_index),
             audio_profiles |-> FilterProfiles(profiles, "audio", encryption_index)]

\* The call of get_stream_info on a manifest filters the profiles or raises.
GetStreamInfo ==
    /\ calc.fn = "get_stream_info"
    /\ ~calc.done
    /\ calc' = [calc EXCEPT !.done = TRUE,
                            !.result = get_stream_info(calc.encryption_infos,
                                                       calc.profiles)]
    /\ CalcFrame

\* ------------------------------------------- SpotifyDeviceFlow.get_token
\* calc holds the frame of get_token: where it stands, the requests sent so
\* far with what they carried, and the values it has read from responses
\* ("" where none has been read, "None" for a JSON null).
NoFlow ==
    [fn |-> "get_token", done |-> FALSE, pc |-> "authorize", requests |-> <<>>,
     device_code |-> "", user_code |-> "", flow_ctx |-> "", csrf_token |-> "",
     submit_result |-> "", error |-> "", result |-> ""]

\* A request of the flow leaves with what it carries.
Sent(step, carried) == Append(calc.requests, [step |-> step, carried |-> carried])

\* The flow is left with an exception.
FlowRaises(requests, error) ==
    calc' = [calc EXCEPT !.done = TRUE, !.pc = "raised", !.requests = requests,
                         !.error = error]

\* _initiate_device_authorization, and the three reads of auth_data
InitiateDeviceAuthorization ==
    /\ calc.fn = "get_token"
    /\ calc.pc = "authorize"
    /\ LET requests == Sent("device_authorization", <<>>)
       IN \/ \E error \in {"http_error", "not_json", "no_device_code"} :
                FlowRaises(requests, error)
          \/ \E device_code \in {"dc1", "dc2"}, user_code \in {"uc1", "uc2"} :
                calc' = [calc EXCEPT !.pc = "parse", !.requests = requests,
                                     !.device_code = device_code,
                                     !.user_code = user_code]
    /\ CalcFrame

\* _parse_verification_page with _extract_csrf_token: json_data["props"]
\* ["initialToken"] is returned as it is, a null included.
ParseVerificationPage ==
    /\ calc.fn = "get_token"
    /\ calc.pc = "parse"
    /\ LET requests == Sent("verification_page", <<>>)
       IN \/ \E error \in {"http_error", "Failed to extract flow_ctx",
                           "Failed to extract CSRF token"} :
                FlowRaises(requests, error)
          \/ \E flow_ctx \in {"ctx1", "ctx2"},
                   csrf_token \in {"tok1", "tok2", "None"} :
                calc' = [calc EXCEPT !.pc = "submit", !.requests = requests,
                                     !.flow_ctx = flow_ctx,
                                     !.csrf_token = csrf_token]
    /\ CalcFrame

\* The result of the submission is not looked at.
SubmitAcceptedUnasserted(submit_result) == submit_result # "not_json"

\* submit_result = response.json(); assert submit_result.get("result") == "ok"
SubmitAccepted(submit_result) == submit_result = "ok"

\* _submit_user_code
SubmitUserCode ==
    /\ calc.fn = "get_token"
    /\ calc.pc = "submit"
    /\ LET requests == Sent("user_code",
                            <<calc.user_code, calc.flow_ctx, calc.csrf_token>>)
       IN \/ FlowRaises(requests, "http_error")
          \/ \E submit_result \in {"ok", "not_json", "error", "missing"} :
                IF SubmitAccepted(submit_result)
                THEN calc' = [calc EXCEPT !.pc = "exchange",
                                          !.requests = requests,
                                          !.submit_result = submit_result]
                ELSE calc' = [calc EXCEPT !.done = TRUE, !.pc = "raised",
                                          !.requests = requests,
                                          !.submit_result = submit_result,
                                          !.error = "Failed to submit user code"]
    /\ CalcFrame

\* _exchange_device_code
ExchangeDeviceCode ==
    /\ calc.fn = "get_token"
    /\ calc.pc = "exchange"
    /\ LET requests == Sent("device_token", <<calc.device_code>>)
       IN \/ \E error \in {"http_error", "not_json"} : FlowRaises(requests, error)
          \/ calc' = [calc EXCEPT !.done = TRUE, !.pc = "returned",
                                  !.requests = requests, !.result = "token_data"]
    /\ CalcFrame

InitDeviceFlow ==
    /\ Quiet
    /\ calc = NoFlow

NextDeviceFlow ==
    \/ InitiateDeviceAuthorization
    \/ ParseVerificationPage
    \/ SubmitUserCode
    \/ ExchangeDeviceCode

SpecDeviceFlow == InitDeviceFlow /\ [][NextDeviceFlow]_vars

\* ------------------------------------------------------ secret derivation
\* a ^ b on non-negative ints
RECURSIVE Xor(_, _)
Xor(a, b) ==
    IF a = 0 THEN b
    ELSE IF b = 0 THEN a
    ELSE (((a % 2) + (b % 2)) % 2) + 2 * Xor(a \div 2, b \div 2)

\* str(n) for n >= 0: its decimal digits, one character each
RECURSIVE str(_)
str(n) ==
    LET digit == <<"0", "1", "2", "3", "4", "5", "6", "7", "8", "9">>
    IN IF n < 10 THEN <<digit[n + 1]>>
       ELSE str(n \div 10) \o <<digit[(n % 10) + 1]>>

\* "".join(strings)
RECURSIVE join(_)
join(strings) ==
    IF strings = <<>> THEN <<>> ELSE Head(strings) \o join(Tail(strings))

\* ord(c) of a digit or a letter a-f, chr of the code of a digit
ord(c) ==
    CASE c = "0" -> 48 [] c = "1" -> 49 [] c = "2" -> 50 [] c = "3" -> 51
      [] c = "4" -> 52 [] c = "5" -> 53 [] c = "6" -> 54 [] c = "7" -> 55
      [] c = "8" -> 56 [] c = "9" -> 57

\* string.encode("ascii"), string.encode(): the bytes of a str of digits
encode(string) == [i \in DOMAIN string |-> ord(string[i])]

\* The mask without the wrap at 33.
DeriveMaskUnwrapped(i) == i + 9

\* (i % 33) + 9, for the index i counted from 0
DeriveMask(i) == (i % 33) + 9

\* Totp.derive(ciphertext)
Totp_derive(ciphertext) ==
    encode(join([k \in DOMAIN ciphertext |->
                    str(Xor(ciphertext[k], DeriveMask(k - 1)))]))

\* TOTP.transform_secret(original_secret): the str is the sequence of the
\* code points of its characters, so ord(c) reads the entry.  Returns
\* joined_decimal and leaves its bytes in self.secret.
TOTP_transform_secret(original_secret) ==
    LET ascii_codes == original_secret
        transformed == [k \in DOMAIN ascii_codes |->
                           Xor(ascii_codes[k], DeriveMask(k - 1))]
        joined_decimal == join([k \in DOMAIN transformed |-> str(transformed[k])])
    IN [returned |-> joined_decimal, secret |-> encode(joined_decimal)]

\* bytes(n).hex(): two hex digits a byte; Ee reads them back in pairs.
hex(bytes) ==
    join([k \in DOMAIN bytes |->
             <<HexDigits[(bytes[k] \div 16) + 1], HexDigits[(bytes[k] % 16) + 1]>>])

Ee(e) ==
    [r \in 1..(Len(e) \div 2) |->
        16 * (IndexOf(e[2 * r - 1], HexDigits) - 1)
        + (IndexOf(e[2 * r], HexDigits) - 1)]

\* generate_secret_key(arr): Pe(arr).buffer
generate_secret_key(arr) ==
    LET t == [k \in DOMAIN arr |-> Xor(arr[k], DeriveMask(k - 1))]
        n == encode(join([k \in DOMAIN t |-> str(t[k])]))
    IN Ee(hex(n))

\* The three derivations of one raw secret return.
Derive ==
    /\ calc.fn = "derive"
    /\ ~calc.done
    /\ calc' = [calc EXCEPT
                  !.done = TRUE,
                  !.result = [Totp |-> Totp_derive(calc.secret),
                              TOTP |-> TOTP_transform_secret(calc.secret),
                              generate_secret_key |->
                                  generate_secret_key(calc.secret)]]
    /\ CalcFrame

\* -------------------------------------------------------- secret selection
\* int(key) of a str of decimal digits
RECURSIVE int(_)
int(key) ==
    IF key = <<>> THEN 0
    ELSE 10 * int(SubSeq(key, 1, Len(key) - 1)) + (ord(key[Len(key)]) - 48)

\* The registry fetched: a dict from version keys ("9", "10", ...) to raw
\* secrets; the secret of a version is told by its values.
Registry(versions) ==
    [key \in {str(n) : n \in versions} |->
        [k \in 1..3 |-> (int(key) + k) % 128]]

\* max(secrets.keys(), key=int) and max(secrets.json().items(), key=lambda
\* item: int(item[0])), for a dict that is not empty
max_by_int(keys) == CHOOSE key \in keys : \A other \in keys : int(other) <= int(key)

\* No Totp, no request: an exception has left the caller.
NoSelection == [raised |-> TRUE, selected |-> <<>>, totpVer |-> <<>>,
                secret |-> <<>>]

\* api.SpotifyApi: Totp.initialize(), then _get_session_token() with
\* self.totp.generate(...) keyed by self.totp.secret and "totpVer":
\* self.totp.version.
Totp_initialize(secrets) ==
    IF DOMAIN secrets = {} THEN NoSelection
    ELSE LET version == max_by_int(DOMAIN secrets)
             totp == [version |-> version, secret |-> Totp_derive(secrets[version])]
         IN [raised |-> FALSE, selected |-> version, totpVer |-> totp.version,
             secret |-> totp.secret]

\* spotify_api.SpotifyApi.__init__: the highest item is taken and handed to
\* TOTP(version=..., ciphertext=...); TOTP.__init__(self) takes no such
\* arguments, a TypeError (max() of an empty dict is a ValueError).
SpotifyApi_init(secrets) ==
    IF DOMAIN secrets = {} THEN NoSelection
    ELSE LET totp_version == max_by_int(DOMAIN secrets)
         IN [NoSelection EXCEPT !.selected = totp_version]

\* The client is built on a registry; with a Totp it asks for a session
\* token.
SelectSecret ==
    /\ calc.fn = "select_secret"
    /\ ~calc.done
    /\ calc' = [calc EXCEPT
                  !.done = TRUE,
                  !.result = IF calc.client = "api.SpotifyApi"
                             THEN Totp_initialize(calc.secrets)
                             ELSE SpotifyApi_init(calc.secrets)]
    /\ CalcFrame

\* ------------------------------------------ DownloaderAudio.decrypt_playplay
\* b"OggS"
OggS == <<79, 103, 103, 83>>

\* The key stream of AES in counter mode for a key, the fixed nonce and
\* initial value: one byte a position, told by the key and the position.
KeyStream(decryption_key, i) == (decryption_key + (37 * i)) % 256

\* cipher.decrypt(data), and the encryption it undoes: byte by byte XOR
\* with the key stream.
AesCtr(decryption_key, data) ==
    [i \in DOMAIN data |-> Xor(data[i], KeyStream(decryption_key, i))]

\* The offset of the last occurrence, -1 when there is none.
rfind(data, sub) ==
    LET at == {i \in 1..(Len(data) - Len(sub) + 1) :
                  SubSeq(data, i, i + Len(sub) - 1) = sub}
    IN IF at = {} THEN -1 ELSE (CHOOSE i \in at : \A k \in at : k <= i) - 1

\* data.find(sub): the offset of the first occurrence, -1 when there is none
find(data, sub) ==
    LET at == {i \in 1..(Len(data) - Len(sub) + 1) :
                  SubSeq(data, i, i + Len(sub) - 1) = sub}
    IN IF at = {} THEN -1 ELSE (CHOOSE i \in at : \A k \in at : i <= k) - 1

\* decrypt_playplay: the file at decrypted_path is opened for writing, so
\* it exists and is empty whatever it held; it is written only past the
\* search.
decrypt_playplay(decryption_key, encrypted_data) ==
    LET decrypted_data == AesCtr(decryption_key, encrypted_data)
        offset == find(decrypted_data, OggS)
    IN IF offset = -1
       THEN [raised |-> TRUE, decrypted_file |-> <<>>]
       ELSE [raised |-> FALSE,
             decrypted_file |-> SubSeq(decrypted_data, offset + 1,
                                       Len(decrypted_data))]

\* The call of decrypt_playplay on an encrypted file returns or raises.
DecryptPlayplay ==
    /\ calc.fn = "decrypt_playplay"
    /\ ~calc.done
    /\ calc' = [calc EXCEPT
                  !.done = TRUE,
                  !.result = decrypt_playplay(calc.decryption_key,
                                              calc.encrypted_data)]
    /\ CalcFrame

\* ------------------------------------------------- the pre-flight of main
\* shutil.which of the five helpers: o.found holds those that were found.
\* The checks of main between the downloaders and the URLs, in their order;
\* "return" where main returns, "continue" where it goes on to the URLs.
preflight(o) ==
    LET remux_mode == adjust_remux_mode(
                          [enum |-> "VideoFormat", name |-> o.video_format],
                          [enum |-> "RemuxModeVideo", name |-> o.remux_mode_video])
        aac == o.audio_quality \in Range(AAC_AUDIO_QUALITIES)
        premium_quality == o.audio_quality \in {"vorbis-high", "aac-high"}
        videos == o.download_podcast_videos \/ o.download_music_videos
    IN IF o.lrc_only THEN "continue"
       ELSE IF o.download_mode = "ARIA2C" /\ "aria2c" \notin o.found
       THEN "return"
       ELSE IF ~o.is_premium /\ premium_quality THEN "return"
       \* FFMPEG without ffmpeg: logger.critical and no return
       ELSE IF aac /\ o.remux_mode_audio = "MP4BOX" /\ "mp4box" \notin o.found
       THEN "return"
       ELSE IF /\ aac
               /\ o.remux_mode_audio \in {"MP4DECRYPT", "MP4BOX"}
               /\ "mp4decrypt" \notin o.found
       THEN "return"
       ELSE IF /\ videos
               /\ remux_mode = [enum |-> "RemuxModeVideo", name |-> "FFMPEG"]
               /\ "ffmpeg" \notin o.found
       THEN "return"
       ELSE IF /\ videos
               /\ remux_mode = [enum |-> "RemuxModeVideo", name |-> "MP4BOX"]
               /\ "mp4box" \notin o.found
       THEN "return"
       ELSE IF /\ o.download_music_videos
               /\ "mp4decrypt" \notin o.found
               /\ o.video_format = "MP4"
       THEN "return"
       \* WEBM without Shaka Packager: logger.critical and no return
       ELSE "continue"

\* main reaches its checks with the options of the command line.
Preflight ==
    /\ calc.fn = "preflight"
    /\ ~calc.done
    /\ calc' = [calc EXCEPT !.done = TRUE, !.result = preflight(calc.options)]
    /\ CalcFrame

InitPreflight ==
    /\ Quiet
    /\ \E options \in [lrc_only : BOOLEAN, download_mode : {"YTDLP", "ARIA2C"},
                       is_premium : BOOLEAN,
                       audio_quality : {"aac-medium", "aac-high", "vorbis-medium"},
                       remux_mode_audio : {"FFMPEG", "MP4BOX", "MP4DECRYPT"},
                       download_podcast_videos : BOOLEAN,
                       download_music_videos : BOOLEAN,
                       video_format : {"MP4", "WEBM", "ASK"},
                       remux_mode_video : {"FFMPEG", "MP4BOX"},
                       found : SUBSET {"aria2c", "ffmpeg", "mp4box",
                                       "mp4decrypt", "packager"}] :
         calc = [fn |-> "preflight", done |-> FALSE, options |-> options,
                 result |-> "none"]

NextPreflight == Preflight

SpecPreflight == InitPreflight /\ [][NextPreflight]_vars

\* --------------------------------------------------------- calls in a row
\* A function is handed its arguments:
\* a DownloaderAudio of some quality a list of files, whose formats are
\* those of the mapping or one the mapping does not know; the generators a
\* server time in ms; the codec an identifier; DownloaderVideo the format
\* and the remux mode of the command line; get_gid_metadata the media type,
\* the product of the account and the bitrates of the manifest's files;
\* get_segment_urls the templates, the length and the profile of a
\* manifest; get_stream_info its encryption descriptors and profiles; the
\* derivations a raw secret; the clients a registry of secrets;
\* decrypt_playplay an encrypted file.
InitCalc ==
    /\ Quiet
    /\ \/ \E quality \in DOMAIN AUDIO_QUALITY_X_FORMAT_ID_MAPPING,
             n \in 0..MaxFiles :
            \E formats \in [1..n -> {AUDIO_QUALITY_X_FORMAT_ID_MAPPING[q] :
                                       q \in DOMAIN AUDIO_QUALITY_X_FORMAT_ID_MAPPING}
                                     \cup {"MP3_96"}] :
            calc = [fn |-> "get_audio_file", done |-> FALSE, quality |-> quality,
                    audio_files |-> formats, result |-> NoAudioFile]
       \/ \E timestamp \in 0..MaxTimestamp :
            calc = [fn |-> "generate", done |-> FALSE, timestamp |-> timestamp,
                    result |-> [Totp |-> 0, TOTP |-> 0, generate_totp |-> 0]]
       \/ \E media_id \in Variants(MediaId, CHARSET_INVERTED) :
            calc = [fn |-> "media_id_to_gid", done |-> FALSE,
                    media_id |-> media_id,
                    result |-> [gid |-> <<>>, media_id |-> <<>>, again |-> <<>>]]
       \/ \E gid \in Variants(GidOfMedia, HexDigits) :
            calc = [fn |-> "gid_to_media_id", done |-> FALSE, gid |-> gid,
                    result |-> [media_id |-> <<>>, gid |-> <<>>]]
       \/ \E format \in {"MP4", "WEBM", "ASK"}, mode \in {"FFMPEG", "MP4BOX"} :
            calc = [fn |-> "remux", done |-> FALSE,
                    video_format |-> [enum |-> "VideoFormat", name |-> format],
                    remux_mode |-> [enum |-> "RemuxModeVideo", name |-> mode],
                    result |-> <<>>]
       \/ \E media_type \in {"track", "episode"},
             user_product \in {"PREMIUM", "premium", "free"},
             quality \in DOMAIN AUDIO_QUALITY_X_FORMAT_ID_MAPPING,
             name_matches \in BOOLEAN, n \in 0..MaxFiles :
            \E files \in [1..n -> {96000, 128000, 160000, 256000, 320000}] :
            calc = [fn |-> "get_gid_metadata", done |-> FALSE,
                    media_type |-> media_type, user_product |-> user_product,
                    audio_quality |-> quality, name_matches |-> name_matches,
                    files |-> files, result |-> RaisedValueError]
       \/ \E initialization_template \in
             {<<Text("/profiles/"), Placeholder("profile_id"), Text("/inits/"),
                Placeholder("file_type")>>,
              <<Placeholder("file_type"), Text("/"), Placeholder("profile_id"),
                Text("/init."), Placeholder("file_type")>>},
             segment_template \in
             {<<Text("/profiles/"), Placeholder("profile_id"), Text("/"),
                Placeholder("segment_timestamp"), Text("."), Placeholder("file_type")>>,
              <<Placeholder("segment_timestamp"), Text("/"), Placeholder("file_type"),
                Text("/"), Placeholder("profile_id"), Text("/"),
                Placeholder("segment_timestamp")>>},
             end_time_millis \in 0..MaxEndTime, segment_length \in 1..3,
             file_type \in {"mp4", "ts"} :
            calc = [fn |-> "get_segment_urls", done |-> FALSE,
                    base_url |-> "https://cdn",
                    initialization_template |-> initialization_template,
                    segment_template |-> segment_template,
                    end_time_millis |-> end_time_millis,
                    segment_length |-> segment_length, profile_id |-> 7,
                    file_type |-> file_type, result |-> <<>>]
       \/ \E n \in 0..2, m \in 0..2 :
            \E encryption_infos \in [1..n -> {"widevine", "playready", "fairplay"}],
               profiles \in [1..m ->
                   [mime_type : [type : {"video", "audio"}, subtype : {"mp4"}],
                    has_encryption_indices : {TRUE},
                    encryption_indices : SUBSET {0, 1}]
                   \cup [mime_type : [type : {"video", "audio"},
                                      subtype : {"mp4"}],
                         has_encryption_indices : {FALSE},
                         encryption_indices : {{}}]] :
            calc = [fn |-> "get_stream_info", done |-> FALSE,
                    encryption_infos |-> encryption_infos,
                    profiles |-> profiles,
                    result |-> [raised |-> FALSE, encryption_index |-> NoIndex,
                                video_profiles |-> <<>>, audio_profiles |-> <<>>]]
       \/ \E n \in 0..MaxSecretLen, c \in 0..15, step \in {0, 7} :
            \E secret \in {[k \in 1..n |-> (c + (step * k)) % 128]} :
            calc = [fn |-> "derive", done |-> FALSE, secret |-> secret,
                    result |-> [Totp |-> <<>>,
                                TOTP |-> [returned |-> <<>>, secret |-> <<>>],
                                generate_secret_key |-> <<>>]]
       \/ \E versions \in SUBSET {8, 9, 10, 24, 100},
             client \in {"api.SpotifyApi", "spotify_api.SpotifyApi"} :
            calc = [fn |-> "select_secret", done |-> FALSE, client |-> client,
                    secrets |-> Registry(versions), result |-> NoSelection]
       \/ \E n \in 0..MaxChunks, decryption_key \in {0, 201} :
            \E chunks \in [1..n -> {OggS, <<79, 103>>, <<103, 83>>, <<79>>, <<0>>}] :
            calc = [fn |-> "decrypt_playplay", done |-> FALSE,
                    decryption_key |-> decryption_key,
                    plaintext |-> join(chunks),
                    encrypted_data |-> AesCtr(decryption_key, join(chunks)),
                    result |-> [raised |-> FALSE, decrypted_file |-> <<>>]]

NextCalc ==
    \/ GetAudioFile
    \/ Generate
    \/ ConvertMediaId
    \/ ConvertGid
    \/ RemuxVideo
    \/ GetGidMetadata
    \/ GetSegmentUrls
    \/ GetStreamInfo
    \/ Derive
    \/ SelectSecret
    \/ DecryptPlayplay

SpecCalc == InitCalc /\ [][NextCalc]_vars

\* ------------------------------------------------------ session claims
\* C1: the refresh check skips the handshake only when the clock is
\* strictly below the stored expiry, and a checked operation called when
\* the clock equals the stored expiry runs the handshake; a request such an
\* operation then sends carries the token of that handshake.
C1_ExpiryExclusive ==
    last_call.checked =>
        /\ (~last_call.reauth => last_call.at < last_call.expire_before)
        /\ (last_call.at = last_call.expire_before => last_call.reauth)
        /\ (last_call.reauth /\ last_call.sent =>
               /\ ~last_auth.failed
               /\ last_call.token = last_auth.by)

\* A checked operation was called with the clock equal to the stored
\* expiry, ran the handshake and sent its request.
C1_Witness ==
    /\ last_call.checked
    /\ last_call.at = last_call.expire_before
    /\ last_call.reauth
    /\ last_call.sent

\* C2: every request a client operation sends with the bearer token was
\* preceded, in the same operation, by the expiry check.
C2_CheckBeforeEveryRequest ==
    last_call.sent => last_call.checked

\* C3: an authentication is reported as failed only after the device flow
\* was attempted as well: a failed primary handshake falls back to it.
C3_DeviceFlowBeforeFailure ==
    (last_auth.failed /\ "totp" \in last_auth.paths)
        => "device_flow" \in last_auth.paths

\* C4: token, client token and expiry are replaced together or not at all,
\* so the stored token and the stored expiry always come from the same
\* handshake.
C4_AtomicReplace ==
    phase = "ready" =>
        /\ authorization = expire_set_by
        /\ client_token \in {0, authorization}

\* C29: the stored expiry is in the unit of the clock on both paths: a
\* checked operation called at or after the time the granted token expires
\* (T + expires_in after a device flow at T, the expiration timestamp on
\* the primary path) runs the handshake before its request.
C29_ExpiryInClockUnit ==
    (/\ last_call.checked
     /\ ~last_call.reauth
     /\ last_auth.by > 0
     /\ ~last_auth.failed) => last_call.at < last_auth.expires_at

\* ---------------------------------------------------------- run claims
\* C5: once a re-authentication has failed while main works through the
\* queue, main attempts no later URL or item.
C5_AuthFailureAborts == ~tally.after_auth_failed

Outside == {"idle", "returned", "metadata"}

\* C7: when download() has returned or raised, and when the next one
\* starts, nothing is left under the temp directory, unless skip_cleanup.
C7_TempCleanedAfterJob ==
    (~skip_cleanup /\ job.pc \in Outside) => temp = {} /\ job.left = {}

\* The second download() call raised in its decrypt step, after the fetch
\* had written the encrypted file, and has returned with temp empty.
C7_Witness ==
    /\ ~skip_cleanup
    /\ tally.begun = 2
    /\ job.pc = "returned"
    /\ job.outcome = "raised"
    /\ job.failed_at = "decrypt"
    /\ "fetch" \in {job.stages[i] : i \in DOMAIN job.stages}
    /\ temp = {}

StageIndex(st) == CHOOSE i \in DOMAIN Stages : Stages[i] = st

StageNames == {Stages[i] : i \in DOMAIN Stages}

Done(j) == {j.stages[i] : i \in DOMAIN j.stages}

\* The stage a job is in or has failed in, if any.
Current(j) ==
    CASE j.failed_at \in StageNames -> {j.failed_at}
      [] j.pc \in {"fetch", "fetch_audio"} -> {"fetch"}
      [] j.pc \in {"key", "key_license", "key_parse", "key_finally"} -> {"key"}
      [] j.pc \in {"decrypt", "remux", "finalize"} -> {j.pc}
      [] OTHER -> {}

\* C8: the stages a job completes come in the order resolve, select, key,
\* fetch, decrypt, remux, finalize; a fetch is started only with the key
\* stage complete, a decrypt or remux only with the fetch stage complete,
\* the file is moved only with decrypt or remux complete, and a job that
\* failed in a stage has completed no later stage.
C8_PipelineOrder ==
    /\ \A i, k \in DOMAIN job.stages :
          i < k => StageIndex(job.stages[i]) < StageIndex(job.stages[k])
    /\ \A st \in Current(job) : \A d \in Done(job) :
          StageIndex(d) < StageIndex(st) \/ (d = st /\ st = "finalize")
    /\ "fetch" \in Current(job) \cup Done(job) => "key" \in Done(job)
    /\ {"decrypt", "remux"} \cap (Current(job) \cup Done(job)) # {} =>
          "fetch" \in Done(job)
    /\ (job.moved \/ "finalize" \in Done(job)) =>
          /\ {"decrypt", "remux"} \cap Done(job) # {}
          /\ {"resolve", "select", "key", "fetch"} \subseteq Done(job)
    /\ job.outcome = "raised" => job.pc \in {"finally", "returned"}
    /\ (job.outcome = "raised" /\ job.failed_at # "finalize") => ~job.moved

\* A job went through all seven stages and its file was moved.
C8_Witness ==
    /\ job.pc = "returned"
    /\ job.moved
    /\ job.outcome = "finalized"
    /\ job.stages = Stages

KeyPcs == {"key_license", "key_parse", "key_finally"}

\* C9: a session is open in the CDM only while a key exchange is under
\* way; when the exchange has returned or raised, the one session it
\* opened has been closed once, and nothing was closed if none was opened.
C9_SessionClosedOnce ==
    /\ job.opened <= 1
    /\ job.closed <= job.opened
    /\ cdm_open = job.opened - job.closed
    /\ job.pc \notin KeyPcs => job.closed = job.opened
    /\ job.session = "unbound" => job.opened = 0

\* The license request failed with a session open; the exchange raised
\* and the session is closed.
C9_Witness ==
    /\ job.failed_at = "key"
    /\ job.outcome = "raised"
    /\ job.opened = 1
    /\ job.closed = 1
    /\ cdm_open = 0
    /\ last_call.op = "get_widevine_license"
    /\ last_call.result = "error"

\* The fragments whose fetch ended well, in list order.
RECURSIVE FetchedUrls(_)
FetchedUrls(n) ==
    IF n = 0 THEN <<>>
    ELSE IF frag_status[n] = "fetched"
         THEN Append(FetchedUrls(n - 1), segment_urls[n])
         ELSE FetchedUrls(n - 1)

C11_QualityLadder ==
    (calc.fn = "get_audio_file" /\ calc.done) =>
        LET files == calc.audio_files
            r == calc.result
            Family(q) == IF q \in {"aac-high", "aac-medium"}
                         THEN <<"aac-high", "aac-medium">>
                         ELSE <<"vorbis-high", "vorbis-medium", "vorbis-low">>
            Rank(q) == IndexOf(q, Family(q))
            family == Family(calc.quality)
            candidates ==
                {c \in Rank(calc.quality)..Len(family) :
                    \E i \in DOMAIN files :
                        files[i] = AUDIO_QUALITY_X_FORMAT_ID_MAPPING[family[c]]}
        IN /\ (r = NoAudioFile) <=> (candidates = {})
           /\ r # NoAudioFile =>
                /\ Family(r.quality) = family
                /\ Rank(r.quality) \in candidates
                /\ \A c \in candidates : Rank(r.quality) <= c
                /\ r.file_id \in DOMAIN files
                /\ files[r.file_id] = AUDIO_QUALITY_X_FORMAT_ID_MAPPING[r.quality]
                /\ r.format = files[r.file_id]

\* C11 witness: HIGH is requested, the list holds LOW, then MEDIUM, then a
\* file of the other family: the call returned MEDIUM.
C11_Witness ==
    /\ calc.fn = "get_audio_file"
    /\ calc.done
    /\ calc.quality = "vorbis-high"
    /\ calc.audio_files = <<"OGG_VORBIS_96", "OGG_VORBIS_160", "MP4_256">>
    /\ calc.result.quality = "vorbis-medium"
    /\ calc.result.file_id = 2

\* C12: media that is not available (no audio file at any tier, no video or
\* audio profile in the manifest) ends the job as a skip: it does not
\* raise, no key is requested, nothing is fetched, no final file is made.
C12_UnavailableIsSkip ==
    (/\ job.pc \in {"finally", "returned"}
     /\ \/ job.kind \in AudioKinds /\ job.si = "nofile"
           /\ job.stages = <<"resolve">>
        \/ job.kind \in VideoKinds /\ job.si = "noprofiles") =>
        /\ job.outcome # "raised"
        /\ ~job.has_key
        /\ job.opened = 0
        /\ ~job.moved

\* -------------------------------------------------------- counter claims
\* C13: for a server time t in ms the counter is floor(t / 1000 / period):
\* the one k with k * period * 1000 <= t < (k + 1) * period * 1000, so it
\* is constant inside a period and steps by one from t = period * 1000 - 1
\* to t = period * 1000; Totp.generate, TOTP.generate and generate_totp
\* compute the same counter.
C13_TotpCounter ==
    (calc.fn = "generate" /\ calc.done) =>
        LET t == calc.timestamp
            k == calc.result.Totp
        IN /\ k * TOTP_PERIOD * 1000 <= t
           /\ t < (k + 1) * TOTP_PERIOD * 1000
           /\ calc.result.TOTP = k
           /\ calc.result.generate_totp = k

\* C13 witness: at t = period * 1000, the first millisecond of the second
\* period, the three generators have counter 1.
C13_Witness ==
    /\ calc.fn = "generate"
    /\ calc.done
    /\ calc.timestamp = TOTP_PERIOD * 1000
    /\ calc.result = [Totp |-> 1, TOTP |-> 1, generate_totp |-> 1]

\* ---------------------------------------------------------- codec claims
\* C14: with decode = media_id_to_gid and encode = gid_to_media_id,
\* decode(encode(decode(x))) = decode(x) and encode(decode(x)) = x for a
\* 22-character base62 identifier x, and decode(encode(g)) = g for a
\* 32-digit lowercase hex gid g.
C14_CodecRoundTrip ==
    /\ (calc.fn = "media_id_to_gid" /\ calc.done) =>
          /\ calc.result.again = calc.result.gid
          /\ calc.result.media_id = calc.media_id
          /\ Len(calc.result.gid) >= 32
    /\ (calc.fn = "gid_to_media_id" /\ calc.done) =>
          /\ calc.result.gid = calc.gid
          /\ Len(calc.result.media_id) = 22

\* C14 witness: an identifier that begins with zeros went through decode,
\* encode and decode, and its gid, which needs the padding, came back.
C14_Witness ==
    /\ calc.fn = "media_id_to_gid"
    /\ calc.done
    /\ calc.media_id[1] = "0"
    /\ calc.media_id[2] = "0"
    /\ calc.media_id[22] = "h"
    /\ calc.result.gid[1] = "0"
    /\ Len(calc.result.gid) = 32
    /\ calc.result.media_id = calc.media_id

\* -------------------------------------------------------- request claims
\* C15: no request is retried: each request of a call is sent at most
\* once, and one that failed is not sent again.
C15_NoRetry ==
    \A r \in DOMAIN playback.sent : playback.sent[r] <= 1

\* C16: at most one thread sends on the shared session: no two of its
\* requests are in flight at the same time.
C16_OneRequestInFlight ==
    ~(/\ playback.caller \in {"register", "command", "get"}
      /\ playback.keep_alive = "put")

\* ---------------------------------------------------------- remux claims
\* C17: DownloaderVideo.remux invokes exactly one backend, the one of the
\* configuration: mp4box when the video remux mode is MP4BOX and the format
\* is not WEBM, ffmpeg when it is FFMPEG.
C17_RemuxBackendFollowsConfig ==
    (calc.fn = "remux" /\ calc.done) =>
        /\ Len(calc.result) = 1
        /\ (calc.remux_mode.name = "MP4BOX" /\ calc.video_format.name # "WEBM")
              => calc.result = <<"remux_mp4box">>
        /\ calc.remux_mode.name = "FFMPEG" => calc.result = <<"remux_ffmpeg">>

\* ------------------------------------------------------------ key claims
\* C18: for a variant of the key-wrap scheme (the vorbis qualities) key
\* acquisition sends a request to the key-wrap license endpoint: a job that
\* ended in its key step did so after that request.
C18_KeyWrapRequestSent ==
    (/\ job.kind \in AudioKinds
     /\ audio_quality = "vorbis"
     /\ job.outcome = "raised"
     /\ job.failed_at = "key") =>
        /\ last_call.op = "get_playplay_license"
        /\ last_call.sent

C20_ExistingPreserved ==
    (job.exists /\ ~overwrite) =>
        /\ ~job.has_key
        /\ job.opened = 0
        /\ Done(job) \subseteq {"resolve", "select"}
        /\ job.pc \in {"finalize", "finally", "returned"}
        /\ job.media = "none"
        /\ ~job.moved
        /\ job.outcome \in {"none", "exists", "kept", "raised"}
        /\ job.outcome = "raised" => job.failed_at = "finalize"

\* C20 witness: download() of a song whose final file was there has
\* returned, after _final_processing, with the file kept.
C20_Witness ==
    /\ job.kind = "song"
    /\ job.exists
    /\ ~overwrite
    /\ job.pc = "returned"
    /\ job.outcome = "kept"
    /\ job.stages = <<"resolve", "select">>

\* ------------------------------------------------- item selection claims
\* C21: the file get_gid_metadata chooses for a queue item is of the
\* closest tier at or below the configured audio quality that has a file:
\* never of a tier above it, and of a lower tier, not a failure, when the
\* requested tier has no file and a lower one has.  (The tiers of a family
\* are told apart by the bitrate in the format id of the mapping.)
C21_ClosestTierAtOrBelow ==
    (calc.fn = "get_gid_metadata" /\ calc.done /\ calc.name_matches) =>
        LET bitrate == "vorbis-high" :> 320000 @@ "vorbis-medium" :> 160000
                       @@ "vorbis-low" :> 96000 @@ "aac-high" :> 256000
                       @@ "aac-medium" :> 128000
            family == IF calc.audio_quality \in Range(AAC_AUDIO_QUALITIES)
                      THEN Range(AAC_AUDIO_QUALITIES)
                      ELSE Range(VORBIS_AUDIO_QUALITIES)
            below == {b \in Range(calc.files) :
                        \E q \in family : /\ bitrate[q] = b
                                          /\ b <= bitrate[calc.audio_quality]}
        IN /\ ~calc.result.raised =>
                calc.result.bitrate <= bitrate[calc.audio_quality]
           /\ below # {} =>
                /\ ~calc.result.raised
                /\ \A b \in below : b <= calc.result.bitrate

C23_WidevineProfiles ==
    (calc.fn = "get_stream_info" /\ calc.done) =>
        LET infos == calc.encryption_infos
            widevine == {i \in DOMAIN infos : infos[i] = "widevine"}
            kept(type) ==
                {i \in DOMAIN calc.profiles :
                    /\ calc.profiles[i].mime_type.type = type
                    /\ \/ ~calc.profiles[i].has_encryption_indices
                       \/ calc.result.encryption_index
                            \in calc.profiles[i].encryption_indices}
        IN /\ ~calc.result.raised
           /\ widevine # {} =>
                /\ calc.result.encryption_index + 1 \in widevine
                /\ \A i \in widevine : calc.result.encryption_index + 1 <= i
           /\ Range(calc.result.video_profiles) = kept("video")
           /\ Range(calc.result.audio_profiles) = kept("audio")

\* -------------------------------------------------- device-flow claims
\* C24: the requests of the device flow leave in the order device
\* authorization, verification page, user-code submission, device-code
\* exchange; the submission leaves only with a flow context and a page
\* token read from the page, the exchange only after a submission whose
\* response said result ok; and a step that fails ends the flow with an
\* error, no later request having left.
C24_DeviceFlowOrder ==
    calc.fn = "get_token" =>
        LET order == <<"device_authorization", "verification_page", "user_code",
                       "device_token">>
            sent == [i \in DOMAIN calc.requests |-> calc.requests[i].step]
            at == "authorize" :> 0 @@ "parse" :> 1 @@ "submit" :> 2
                  @@ "exchange" :> 3 @@ "returned" :> 4
        IN /\ sent = SubSeq(order, 1, Len(sent))
           /\ calc.pc # "raised" => Len(sent) = at[calc.pc]
           /\ Len(sent) >= 3 =>
                /\ calc.flow_ctx # ""
                /\ calc.csrf_token # ""
                /\ calc.requests[3].carried =
                       <<calc.user_code, calc.flow_ctx, calc.csrf_token>>
           /\ Len(sent) = 4 =>
                /\ calc.submit_result = "ok"
                /\ calc.requests[4].carried = <<calc.device_code>>
           /\ calc.pc = "raised" =>
                /\ calc.done /\ calc.error # "" /\ calc.result = ""
                /\ calc.error = "no_device_code" => Len(sent) = 1
                /\ calc.error \in {"Failed to extract flow_ctx",
                                   "Failed to extract CSRF token"} =>
                       Len(sent) = 2
                /\ calc.error = "Failed to submit user code" => Len(sent) = 3

\* The submission was answered with a result other than ok: the flow has
\* ended with an error after three requests.
C24_Witness ==
    /\ calc.fn = "get_token"
    /\ calc.pc = "raised"
    /\ calc.submit_result = "error"
    /\ Len(calc.requests) = 3

\* ------------------------------------------------------- secret claims
\* C25: the key derived from a raw secret [v0, ..., vn] is the
\* concatenation, in index order, of the decimal digits of
\* v_i XOR ((i mod 33) + 9), as ASCII bytes, and Totp.derive,
\* TOTP.transform_secret and generate_secret_key derive the same key from
\* the same secret.
C25_SecretDerivation ==
    (calc.fn = "derive" /\ calc.done) =>
        LET v == calc.secret
            number(i) == Xor(v[i + 1], (i % 33) + 9)
            width(i) == IF number(i) < 10 THEN 1
                        ELSE IF number(i) < 100 THEN 2 ELSE 3
            key == calc.result.Totp
            \* where the digits of v_i begin in the key
            start(i) == 1 + Len(join([k \in 1..i |-> [d \in 1..width(k - 1) |-> 0]]))
            value(i) ==
                LET d == [p \in 1..width(i) |-> key[start(i) + p - 1] - 48]
                IN IF width(i) = 1 THEN d[1]
                   ELSE IF width(i) = 2 THEN 10 * d[1] + d[2]
                   ELSE 100 * d[1] + 10 * d[2] + d[3]
        IN /\ Len(key) = start(Len(v)) - 1
           /\ \A p \in DOMAIN key : key[p] \in 48..57
           /\ \A i \in 0..(Len(v) - 1) : value(i) = number(i)
           /\ calc.result.TOTP.secret = key
           /\ encode(calc.result.TOTP.returned) = key
           /\ calc.result.generate_secret_key = key

\* A secret of 35 values has been derived: the mask has wrapped at index
\* 33 and the three keys are the same digits.
C25_Witness ==
    /\ calc.fn = "derive"
    /\ calc.done
    /\ Len(calc.secret) = 35
    /\ calc.secret[34] # calc.secret[1]
    /\ Len(calc.result.Totp) >= 35
    /\ calc.result.generate_secret_key = calc.result.Totp

\* C26: of a fetched registry the entry of the numerically highest version
\* is taken (10 of 9 and 10), and the version reported with the request
\* for a session token is that of the secret the code was generated with.
C26_HighestVersionReported ==
    (calc.fn = "select_secret" /\ calc.done /\ DOMAIN calc.secrets # {}) =>
        /\ calc.result.selected \in DOMAIN calc.secrets
        /\ \A key \in DOMAIN calc.secrets : int(key) <= int(calc.result.selected)
        /\ ~calc.result.raised
        /\ calc.result.totpVer = calc.result.selected
        /\ calc.result.secret = Totp_derive(calc.secrets[calc.result.totpVer])

\* ------------------------------------------------------ decryption claims
\* C27: decrypt_playplay writes the decrypted plaintext from the first
\* occurrence of the signature OggS to its end, so the output begins with
\* the signature and every byte before it is left out; with no signature
\* in the plaintext it raises and writes no byte of the plaintext.
C27_TrimToSignature ==
    (calc.fn = "decrypt_playplay" /\ calc.done) =>
        LET plain == calc.plaintext
            out == calc.result.decrypted_file
            at == {i \in 1..(Len(plain) - 3) : SubSeq(plain, i, i + 3) = OggS}
        IN IF at = {}
           THEN calc.result.raised /\ out = <<>>
           ELSE /\ ~calc.result.raised
                /\ SubSeq(out, 1, 4) = OggS
                /\ \E i \in at :
                     /\ \A k \in at : i <= k
                     /\ Len(out) = Len(plain) - i + 1
                     /\ \A p \in DOMAIN out : out[p] = plain[i + p - 1]

\* A plaintext with bytes before the signature and a second signature
\* further on has been trimmed at the first.
C27_Witness ==
    /\ calc.fn = "decrypt_playplay"
    /\ calc.done
    /\ calc.decryption_key = 201
    /\ calc.plaintext = <<0>> \o OggS \o OggS
    /\ calc.encrypted_data # calc.plaintext
    /\ calc.result.decrypted_file = OggS \o OggS

\* ---------------------------------------------------- termination claims
\* C28: every call of get_track_playback_info ends, by returning or by the
\* exception of a request, when each of its HTTP requests returns: also
\* when the socket never delivers a connection id, a state machine id or a
\* state id.
C28_PlaybackInfoTerminates == <>(playback.caller \in {"returned", "raised"})

\* ----------------------------------------------------- pre-flight claims
\* C30: main returns before the first URL whenever a helper the selected
\* modes need was not found: aria2c for the aria2c download mode; ffmpeg,
\* mp4box or mp4decrypt for the selected audio remux mode (of AAC audio) or
\* video remux mode (of videos); mp4decrypt for music videos in mp4 and
\* Shaka Packager for music videos in webm.
C30_PreflightStops ==
    (calc.fn = "preflight" /\ calc.done /\ ~calc.options.lrc_only) =>
        LET o == calc.options
            aac == o.audio_quality \in {"aac-medium", "aac-high"}
            videos == o.download_podcast_videos \/ o.download_music_videos
            video_remux == IF o.video_format = "WEBM" THEN "FFMPEG"
                           ELSE o.remux_mode_video
            needed ==
                {b \in {"aria2c"} : o.download_mode = "ARIA2C"}
                \cup {b \in {"ffmpeg"} : aac /\ o.remux_mode_audio = "FFMPEG"}
                \cup {b \in {"mp4box", "mp4decrypt"} :
                        aac /\ o.remux_mode_audio = "MP4BOX"}
                \cup {b \in {"mp4decrypt"} :
                        aac /\ o.remux_mode_audio = "MP4DECRYPT"}
                \cup {b \in {"ffmpeg"} : videos /\ video_remux = "FFMPEG"}
                \cup {b \in {"mp4box"} : videos /\ video_remux = "MP4BOX"}
                \cup {b \in {"mp4decrypt"} :
                        o.download_music_videos /\ o.video_format = "MP4"}
                \cup {b \in {"packager"} :
                        o.download_music_videos /\ o.video_format = "WEBM"}
        IN ~(needed \subseteq o.found) => calc.result = "return"

====
